---- MODULE Spec2Model ----
(***************************************************************************)
(* Model of @brmorillo/ids: the Snowflake generator (SnowflakeGenerator)   *)
(* and the IdService facade that builds generators.                        *)
(*                                                                         *)
(* Millisecond values (Date.now() readings, epoch, lastTimestamp) exceed   *)
(* the integers TLC evaluates, so a millisecond value v is held as the     *)
(* record [hi, lo] with v = hi * LIMB + lo and 0 <= lo < LIMB.  Worker and *)
(* process ids, sequences and the ids built from small timestamp offsets   *)
(* are plain integers.                                                     *)
(***************************************************************************)
EXTENDS Integers, Sequences, FiniteSets

VARIABLES
    gen,        \* the SnowflakeGenerator instance: its private fields
    pc,         \* position of the running getId call: "idle" or "wait"
    waitArg,    \* waitNextMillis' parameter lastTimestamp while pc = "wait"
    ret,        \* outcome of the latest constructor / getId / deconstruct call
    issued,     \* history: the latest id returned and the maxima of the earlier ones
    instance,   \* IdService.instance (the static singleton field)
    svcRet,     \* outcome of the latest IdService call
    svcIds,     \* history: ids returned so far by IdService.getSnowflake()
    served,     \* history, where it is kept: the ids getId() returned on the
                \* service's snowflake generators, with the identity and epoch
    peers,      \* two separate SnowflakeGenerator instances and the ids of each
    racing,     \* one SnowflakeGenerator instance with two getId calls in progress
    nano,       \* a NanoIdGenerator instance and the outcome of its latest getId call
    decoded,    \* history: the first deconstruct call made with each id
    retry       \* a SnowflakeGenerator instance whose callers call getId again
                \* after it failed, with what each call started from

vars == <<gen, pc, waitArg, ret, issued, instance, svcRet, svcIds, served,
         peers, racing, nano, decoded, retry>>

genVars == <<gen, pc, waitArg, ret, issued>>
svcVars == <<instance, svcRet, svcIds, served>>
otherVars == <<peers, racing, nano, decoded, retry>>

-----------------------------------------------------------------------------
(* Bounds of the model.                                                    *)

\* Date.now() reads ClockBase + 0 .. ClockBase + MaxTime milliseconds when a
\* call starts (and up to one millisecond more inside waitNextMillis).
MaxTime == 2

\* Constructor arguments range over -IdMargin .. 31 + IdMargin.
IdMargin == 1

-----------------------------------------------------------------------------
(* Millisecond values too large for a machine integer.                     *)

LIMB == 1000 * 1000

Num(hi, lo) == [hi |-> hi, lo |-> lo]

\* a < b
NumLt(a, b) == a.hi < b.hi \/ (a.hi = b.hi /\ a.lo < b.lo)

\* a <= b
NumLe(a, b) == a = b \/ NumLt(a, b)

\* a - b, as an integer (the model keeps a and b close together)
NumSub(a, b) == (a.hi - b.hi) * LIMB + (a.lo - b.lo)

\* a + n for an integer n
NumAdd(a, n) == Num(a.hi + ((a.lo + n) \div LIMB), (a.lo + n) % LIMB)

-----------------------------------------------------------------------------
(* JavaScript operators used by the generator.                             *)

Pow2(n) == 2 ^ n

\* x << n
Shl(x, n) == x * Pow2(n)

\* x >> n (arithmetic: rounds toward minus infinity)
Shr(x, n) == x \div Pow2(n)

\* a & b on two's complement integers of unbounded width
RECURSIVE BitAnd(_, _)
BitAnd(a, b) ==
    IF a = 0 \/ b = 0 THEN 0
    ELSE IF a = -1 THEN b
    ELSE IF b = -1 THEN a
    ELSE (a % 2) * (b % 2) + 2 * BitAnd(a \div 2, b \div 2)

\* a | b on two's complement integers of unbounded width
RECURSIVE BitOr(_, _)
BitOr(a, b) ==
    IF a = 0 THEN b
    ELSE IF b = 0 THEN a
    ELSE IF a = -1 \/ b = -1 THEN -1
    ELSE (IF a % 2 = 1 \/ b % 2 = 1 THEN 1 ELSE 0) + 2 * BitOr(a \div 2, b \div 2)

DigitChars == <<"0", "1", "2", "3", "4", "5", "6", "7", "8", "9">>

RECURSIVE Digits(_)
Digits(n) ==
    IF n < 10 THEN <<DigitChars[n + 1]>>
    ELSE Append(Digits(n \div 10), DigitChars[(n % 10) + 1])

\* BigInt.prototype.toString(): decimal digits, "-" first for a negative value
ToString(n) == IF n < 0 THEN <<"-">> \o Digits(-n) ELSE Digits(n)

DigitValue(c) == CHOOSE d \in 0..9 : DigitChars[d + 1] = c

RECURSIVE ParseDigits(_)
ParseDigits(s) ==
    IF Len(s) = 0 THEN 0
    ELSE 10 * ParseDigits(SubSeq(s, 1, Len(s) - 1)) + DigitValue(s[Len(s)])

\* BigInt(string) for a decimal literal with an optional sign
ParseBigInt(s) ==
    IF Len(s) > 0 /\ s[1] = "-" THEN -ParseDigits(Tail(s)) ELSE ParseDigits(s)

-----------------------------------------------------------------------------
(* SnowflakeGenerator: constants.                                          *)

WORKER_ID_BITS == 5
PROCESS_ID_BITS == 5
SEQUENCE_BITS == 12

MAX_WORKER_ID == Shl(1, WORKER_ID_BITS) - 1
MAX_PROCESS_ID == Shl(1, PROCESS_ID_BITS) - 1
MAX_SEQUENCE == Shl(1, SEQUENCE_BITS) - 1

TIMESTAMP_SHIFT == WORKER_ID_BITS + PROCESS_ID_BITS + SEQUENCE_BITS
WORKER_ID_SHIFT == PROCESS_ID_BITS + SEQUENCE_BITS
PROCESS_ID_SHIFT == SEQUENCE_BITS

\* 1733011200000
DEFAULT_EPOCH == Num(1733011, 200000)

DEFAULT_WORKER_ID == 1
DEFAULT_PROCESS_ID == 1

\* the initial value of lastTimestamp, -1
INITIAL_LAST_TIMESTAMP == NumAdd(Num(0, 0), -1)

-----------------------------------------------------------------------------
(* JavaScript objects with optional properties.  An options object is a    *)
(* record holding exactly the properties that were given; an omitted       *)
(* options argument is Undefined.                                          *)

Undefined == [undefined |-> TRUE]

\* the object literal {}
EmptyObject == [f \in {} |-> TRUE]

\* whether options?.f is defined
Has(options, f) == f \in DOMAIN options /\ options # Undefined

\* a number used as a condition: 0 is falsy
Truthy(n) == n # Num(0, 0)

-----------------------------------------------------------------------------
(* SnowflakeGenerator: constructor.                                        *)

\* this.epoch = options?.epoch || 1733011200000
EpochOf(options) ==
    IF Has(options, "epoch") /\ Truthy(options.epoch) THEN options.epoch
    ELSE DEFAULT_EPOCH

\* this.workerId = options?.workerId ?? 1
WorkerIdOf(options) ==
    IF Has(options, "workerId") THEN options.workerId ELSE DEFAULT_WORKER_ID

\* this.processId = options?.processId ?? 1
ProcessIdOf(options) ==
    IF Has(options, "processId") THEN options.processId ELSE DEFAULT_PROCESS_ID

\* (off by one: 32 is accepted)
WorkerIdInvalid_OffByOne(workerId) == workerId < 0 \/ workerId > MAX_WORKER_ID + 1

WorkerIdInvalid(workerId) == workerId < 0 \/ workerId > MAX_WORKER_ID

ProcessIdInvalid(processId) == processId < 0 \/ processId > MAX_PROCESS_ID

WorkerIdError == [message |-> <<"Worker ID must be between 0 and ", MAX_WORKER_ID>>]

ProcessIdError == [message |-> <<"Process ID must be between 0 and ", MAX_PROCESS_ID>>]

\* (the two range checks in the other order)
NewSnowflakeGenerator_ProcessFirst(options) ==
    IF ProcessIdInvalid(ProcessIdOf(options))
    THEN [kind |-> "throw", error |-> ProcessIdError]
    ELSE IF WorkerIdInvalid(WorkerIdOf(options))
    THEN [kind |-> "throw", error |-> WorkerIdError]
    ELSE [kind |-> "object",
          object |-> [workerId |-> WorkerIdOf(options),
                      processId |-> ProcessIdOf(options),
                      epoch |-> EpochOf(options),
                      sequence |-> 0,
                      lastTimestamp |-> INITIAL_LAST_TIMESTAMP]]

\* new SnowflakeGenerator(options): the object built, or the error thrown
NewSnowflakeGenerator(options) ==
    IF WorkerIdInvalid(WorkerIdOf(options))
    THEN [kind |-> "throw", error |-> WorkerIdError]
    ELSE IF ProcessIdInvalid(ProcessIdOf(options))
    THEN [kind |-> "throw", error |-> ProcessIdError]
    ELSE [kind |-> "object",
          object |-> [workerId |-> WorkerIdOf(options),
                      processId |-> ProcessIdOf(options),
                      epoch |-> EpochOf(options),
                      sequence |-> 0,
                      lastTimestamp |-> INITIAL_LAST_TIMESTAMP]]

-----------------------------------------------------------------------------
(* SnowflakeGenerator.getId and deconstruct, as functions of the generator *)
(* g and of the clock reading.                                             *)

\* (the regression check left out)
ClockMovedBackwards_Never(g, timestamp) == FALSE

\* (<= for <: the reading lastTimestamp is refused too)
ClockMovedBackwards_OrEqual(g, timestamp) == NumLe(timestamp, g.lastTimestamp)

\* timestamp < this.lastTimestamp
ClockMovedBackwards(g, timestamp) == NumLt(timestamp, g.lastTimestamp)

\* (the magnitude subtracted the wrong way round)
ClockError_Reversed(g, timestamp) ==
    [message |-> <<"Clock moved backwards. Refusing to generate ID for ",
                   NumSub(timestamp, g.lastTimestamp), " milliseconds">>]

ClockError(g, timestamp) ==
    [message |-> <<"Clock moved backwards. Refusing to generate ID for ",
                   NumSub(g.lastTimestamp, timestamp), " milliseconds">>]

\* (a step of two)
NextSequence_ByTwo(sequence) == BitAnd(sequence + 2, MAX_SEQUENCE)

\* (the mask left out)
NextSequence_NoMask(sequence) == sequence + 1

\* (this.sequence + 1) & this.MAX_SEQUENCE
NextSequence(sequence) == BitAnd(sequence + 1, MAX_SEQUENCE)

\* (the timestamp shifted by WORKER_ID_SHIFT: the worker id outranks it)
PackId_ShortShift(g, timestamp) ==
    BitOr(BitOr(BitOr(Shl(NumSub(timestamp, g.epoch), WORKER_ID_SHIFT),
                      Shl(g.workerId, WORKER_ID_SHIFT)),
                Shl(g.processId, PROCESS_ID_SHIFT)),
          g.sequence)

\* (the process id left out of the id)
PackId_NoProcessId(g, timestamp) ==
    BitOr(BitOr(Shl(NumSub(timestamp, g.epoch), TIMESTAMP_SHIFT),
                Shl(g.workerId, WORKER_ID_SHIFT)),
          g.sequence)

\* timestampBits | workerIdBits | processIdBits | sequenceBits
PackId(g, timestamp) ==
    BitOr(BitOr(BitOr(Shl(NumSub(timestamp, g.epoch), TIMESTAMP_SHIFT),
                      Shl(g.workerId, WORKER_ID_SHIFT)),
                Shl(g.processId, PROCESS_ID_SHIFT)),
          g.sequence)

\* (< for <=: the wait ends in the same millisecond)
StillWaiting_Lt(timestamp, lastTimestamp) == NumLt(timestamp, lastTimestamp)

\* (a loop that never ends)
StillWaiting_Always(timestamp, lastTimestamp) == TRUE

\* the loop condition of waitNextMillis
StillWaiting(timestamp, lastTimestamp) == NumLe(timestamp, lastTimestamp)

\* (the sequence cleared before the regression check)
GetIdBegin_ResetOnThrow(g, timestamp) ==
    IF ClockMovedBackwards(g, timestamp)
    THEN [next |-> "throw", g |-> [g EXCEPT !.sequence = 0],
          error |-> ClockError(g, timestamp)]
    ELSE IF timestamp = g.lastTimestamp
    THEN LET s == NextSequence(g.sequence)
         IN  [next |-> IF s = 0 THEN "wait" ELSE "build",
              g |-> [g EXCEPT !.sequence = s]]
    ELSE [next |-> "build", g |-> [g EXCEPT !.sequence = 0]]

\* The part of getId up to the wait: the generator as the call leaves it and
\* what the call does next: "throw", "wait" (waitNextMillis is entered) or
\* "build" (lines 85-95 follow with this timestamp).
GetIdBegin(g, timestamp) ==
    IF ClockMovedBackwards(g, timestamp)
    THEN [next |-> "throw", g |-> g, error |-> ClockError(g, timestamp)]
    ELSE IF timestamp = g.lastTimestamp
    THEN LET s == NextSequence(g.sequence)
         IN  [next |-> IF s = 0 THEN "wait" ELSE "build",
              g |-> [g EXCEPT !.sequence = s]]
    ELSE [next |-> "build", g |-> [g EXCEPT !.sequence = 0]]

\* (this.lastTimestamp = timestamp left out)
GetIdEnd_NoRecord(g, timestamp) == [g |-> g, id |-> ToString(PackId(g, timestamp))]

\* Lines 85-95 of getId: record the timestamp, build the id, return its string.
GetIdEnd(g, timestamp) ==
    LET g2 == [g EXCEPT !.lastTimestamp = timestamp]
    IN  [g |-> g2, id |-> ToString(PackId(g2, timestamp))]

\* (the epoch not added back)
Deconstruct_NoEpoch(g, id) ==
    LET snowflakeId == ParseBigInt(id)
    IN  [timestamp |-> NumAdd(Num(0, 0), Shr(snowflakeId, TIMESTAMP_SHIFT)),
         workerId  |-> BitAnd(Shr(snowflakeId, WORKER_ID_SHIFT), MAX_WORKER_ID),
         processId |-> BitAnd(Shr(snowflakeId, PROCESS_ID_SHIFT), MAX_PROCESS_ID),
         sequence  |-> BitAnd(snowflakeId, MAX_SEQUENCE)]

\* A whole getId call that starts on reading `timestamp`: the outcomes it can
\* end with.  A call that enters waitNextMillis ends on any reading that leaves
\* the loop.
GetIdOutcomes(g, timestamp, waitReadings) ==
    LET b == GetIdBegin(g, timestamp)
        done(t) == LET e == GetIdEnd(b.g, t)
                   IN  [kind |-> "id", g |-> e.g, id |-> e.id]
    IN  IF b.next = "throw" THEN {[kind |-> "throw", g |-> b.g, error |-> b.error]}
        ELSE IF b.next = "build" THEN {done(timestamp)}
        ELSE {done(t) : t \in {w \in waitReadings : ~StillWaiting(w, timestamp)}}

\* deconstruct(id)
Deconstruct(g, id) ==
    LET snowflakeId == ParseBigInt(id)
    IN  [timestamp |-> NumAdd(g.epoch, Shr(snowflakeId, TIMESTAMP_SHIFT)),
         workerId  |-> BitAnd(Shr(snowflakeId, WORKER_ID_SHIFT), MAX_WORKER_ID),
         processId |-> BitAnd(Shr(snowflakeId, PROCESS_ID_SHIFT), MAX_PROCESS_ID),
         sequence  |-> BitAnd(snowflakeId, MAX_SEQUENCE)]

-----------------------------------------------------------------------------
(* The environment: the wall clock and the arguments callers pass.         *)

ClockBase == DEFAULT_EPOCH

\* what Date.now() may return at line 63
CallReadings == {NumAdd(ClockBase, k) : k \in 0..MaxTime}

\* what Date.now() may return inside waitNextMillis
WaitReadings == {NumAdd(ClockBase, k) : k \in 0..(MaxTime + 1)}

\* an epoch later than the first clock reading
CustomEpoch == NumAdd(ClockBase, 1)

\* the constructor arguments of the generator whose getId calls are followed
SampleOptions ==
    { Undefined,
      [workerId |-> 0, processId |-> MAX_PROCESS_ID, epoch |-> CustomEpoch],
      [workerId |-> MAX_WORKER_ID, epoch |-> Num(0, 0)],
      [workerId |-> MAX_WORKER_ID + 1, processId |-> 1],
      [workerId |-> 1, processId |-> -1] }

IdArgs == (0 - IdMargin)..(MAX_WORKER_ID + IdMargin)

EpochArgs == {Num(0, 0), DEFAULT_EPOCH, CustomEpoch}

\* every shape of the options argument, over the whole range of ids
AllOptions ==
    {Undefined, EmptyObject}
    \cup {[workerId |-> w] : w \in IdArgs}
    \cup {[processId |-> p] : p \in IdArgs}
    \cup {[workerId |-> w, processId |-> p] : w \in IdArgs, p \in IdArgs}
    \cup {[workerId |-> w, processId |-> p, epoch |-> e] :
             w \in IdArgs, p \in IdArgs, e \in EpochArgs}

-----------------------------------------------------------------------------
(* History kept for the properties: the latest id a generator returned     *)
(* (with the lastTimestamp and sequence it was built from, and how many    *)
(* ids carry that timestamp) and the maxima over the ids returned earlier. *)

NoHistory == [last |-> {}, maxId |-> {}, maxPair |-> {}]

\* the history of the service's ids where it is not kept
NotServed == [kept |-> FALSE, ids |-> {}]

PairLt(a, b) == NumLt(a[1], b[1]) \/ (a[1] = b[1] /\ a[2] < b[2])

MaxOf(old, new, Less(_, _)) ==
    IF old = {} THEN {new}
    ELSE {IF Less(m, new) THEN new ELSE m : m \in old}

IntLt(a, b) == a < b

Remember(h, g, id) ==
    [last |-> {[id |-> id, lastTimestamp |-> g.lastTimestamp, sequence |-> g.sequence,
                count |-> IF \E l \in h.last : l.lastTimestamp = g.lastTimestamp
                          THEN 1 + (CHOOSE l \in h.last : TRUE).count ELSE 1]},
     maxId |-> IF h.last = {} THEN {}
               ELSE MaxOf(h.maxId, ParseBigInt((CHOOSE l \in h.last : TRUE).id), IntLt),
     maxPair |-> IF h.last = {} THEN {}
                 ELSE LET l == CHOOSE l \in h.last : TRUE
                      IN  MaxOf(h.maxPair, <<l.lastTimestamp, l.sequence>>, PairLt)]

-----------------------------------------------------------------------------
(* One SnowflakeGenerator and the calls made on it.                        *)

Init ==
    /\ gen = Undefined
    /\ pc = "idle"
    /\ waitArg = Undefined
    /\ ret = [kind |-> "none"]
    /\ issued = NoHistory
    /\ instance = Undefined
    /\ svcRet = [kind |-> "none"]
    /\ svcIds = {}
    /\ served = NotServed
    /\ peers = Undefined
    /\ racing = Undefined
    /\ nano = Undefined
    /\ decoded = {}
    /\ retry = Undefined

\* new SnowflakeGenerator(options)
Construct(options) ==
    /\ pc = "idle"
    /\ gen = Undefined
    /\ LET r == NewSnowflakeGenerator(options)
       IN  /\ gen' = IF r.kind = "object" THEN r.object ELSE Undefined
           /\ ret' = IF r.kind = "object"
                     THEN [kind |-> "constructed", options |-> options]
                     ELSE [kind |-> "throw", call |-> "constructor",
                           options |-> options, error |-> r.error]
    /\ UNCHANGED <<pc, waitArg, issued, svcVars, otherVars>>

\* getId returns: lines 85-95
Return(g, first, timestamp, waited) ==
    \E e \in {GetIdEnd(g, timestamp)} :
        /\ gen' = e.g
        /\ ret' = [kind |-> "id", id |-> e.id, first |-> first,
                   timestamp |-> timestamp, waited |-> waited]
        /\ issued' = Remember(issued, gen', ret'.id)
        /\ pc' = "idle"
        /\ waitArg' = Undefined

\* getId is called and reads the clock (lines 62-83)
GetIdCall(timestamp) ==
    /\ pc = "idle"
    /\ gen # Undefined
    /\ \E b \in {GetIdBegin(gen, timestamp)} :
           \/ /\ b.next = "throw"
              /\ gen' = b.g
              /\ ret' = [kind |-> "throw", call |-> "getId", first |-> timestamp,
                         error |-> b.error]
              /\ UNCHANGED <<pc, waitArg, issued>>
           \/ /\ b.next = "wait"
              /\ gen' = b.g
              /\ pc' = "wait"
              /\ waitArg' = timestamp
              /\ ret' = [kind |-> "waiting", first |-> timestamp, timestamp |-> timestamp]
              /\ UNCHANGED issued
           \/ /\ b.next = "build"
              /\ Return(b.g, timestamp, timestamp, FALSE)
    /\ UNCHANGED <<svcVars, otherVars>>

\* one clock reading of waitNextMillis and the test of its loop (lines 142-148)
WaitNextMillis(timestamp) ==
    /\ pc = "wait"
    /\ \/ /\ StillWaiting(timestamp, waitArg)
          /\ ret' = [ret EXCEPT !.timestamp = timestamp]
          /\ UNCHANGED <<gen, pc, waitArg, issued>>
       \/ /\ ~StillWaiting(timestamp, waitArg)
          /\ Return(gen, ret.first, timestamp, TRUE)
    /\ UNCHANGED <<svcVars, otherVars>>

\* deconstruct(id) on the id getId has just returned
DeconstructCall ==
    /\ pc = "idle"
    /\ ret.kind = "id"
    /\ ret' = [kind |-> "deconstructed", id |-> ret.id, timestamp |-> ret.timestamp,
               value |-> Deconstruct(gen, ret.id)]
    /\ UNCHANGED <<gen, pc, waitArg, issued, svcVars, otherVars>>

Next ==
    \/ \E options \in SampleOptions : Construct(options)
    \/ \E timestamp \in CallReadings : GetIdCall(timestamp)
    \/ \E timestamp \in WaitReadings : WaitNextMillis(timestamp)

Spec == Init /\ [][Next]_vars

\* getId makes progress whenever the clock offers a reading past lastTimestamp:
\* the loop of waitNextMillis keeps reading, so a reading that ends the wait is
\* eventually the one it takes.
WaitEnds ==
    \E timestamp \in WaitReadings :
        WaitNextMillis(timestamp) /\ ~StillWaiting(timestamp, waitArg)

LiveSpec == Spec /\ WF_vars(WaitEnds)

-----------------------------------------------------------------------------
(* Properties of one generator (Spec, LiveSpec).                           *)

\* C1: every id getId returns is, read as an integer, strictly greater than
\* every id the same instance returned earlier, whatever the clock does.
C1_Monotonic ==
    \A l \in issued.last : \A m \in issued.maxId : ParseBigInt(l.id) > m

\* an id returned in the same millisecond as its predecessor, after earlier ids
C1_Witness ==
    /\ ret.kind = "id"
    /\ issued.maxId # {}
    /\ \E l \in issued.last : l.sequence > 0

\* C2: the (lastTimestamp, sequence) pair of each returned id is
\* lexicographically greater than the pair of every id returned before, and
\* each id determines its pair, so the ids are pairwise distinct.
C2_PairsIncrease ==
    \A l \in issued.last :
        /\ \A p \in issued.maxPair : PairLt(p, <<l.lastTimestamp, l.sequence>>)
        /\ Deconstruct(gen, l.id).timestamp = l.lastTimestamp
        /\ Deconstruct(gen, l.id).sequence = l.sequence

\* more than 4096 ids were returned: the latest one came out of the wait
C2_Witness ==
    /\ ret.kind = "id"
    /\ ret.waited
    /\ issued.maxPair # {}

\* C4: a getId call whose first clock reading is lower than lastTimestamp
\* returns no id and throws the clock error carrying lastTimestamp - reading.
C4_RegressionThrows ==
    [][\A timestamp \in CallReadings :
          (GetIdCall(timestamp) /\ NumLt(timestamp, gen.lastTimestamp))
          => /\ ret'.kind = "throw"
             /\ ret'.error.message =
                    <<"Clock moved backwards. Refusing to generate ID for ",
                      NumSub(gen.lastTimestamp, timestamp), " milliseconds">>
             /\ pc' = "idle"
             /\ issued' = issued]_vars

\* a getId call failed on a reading two milliseconds behind lastTimestamp
C4_Witness ==
    /\ ret.kind = "throw"
    /\ ret.call = "getId"
    /\ NumSub(gen.lastTimestamp, ret.first) = 2
    /\ ret.error.message[2] = 2

\* C5: at most 4096 ids carry one timestamp; the call that wraps the sequence
\* to 0 does not fail, waits, and returns an id whose timestamp is a reading
\* strictly later than lastTimestamp and whose sequence is 0.
C5_SequenceExhaustion ==
    /\ \A l \in issued.last : l.count <= 4096
    /\ pc = "wait" => (ret.kind = "waiting" /\ gen.sequence = 0)
    /\ (ret.kind = "id" /\ ret.waited) =>
           /\ NumLt(ret.first, ret.timestamp)
           /\ \A l \in issued.last :
                  /\ l.lastTimestamp = ret.timestamp
                  /\ l.sequence = 0
                  /\ Deconstruct(gen, l.id).sequence = 0
                  /\ Deconstruct(gen, l.id).timestamp = ret.timestamp
           /\ \A p \in issued.maxPair : p = <<ret.first, 4095>>

\* the 4097th id of a frozen clock, returned after the wait
C5_Witness ==
    /\ ret.kind = "id"
    /\ ret.waited
    /\ \E p \in issued.maxPair : p[2] = 4095

\* C6: with a clock that eventually reads past lastTimestamp every getId call
\* ends; the wait is left only on a reading later than lastTimestamp, so a
\* clock that never offers one keeps the call waiting.
C6_Terminates ==
    /\ (pc = "wait") ~> (pc = "idle")
    /\ [][(pc = "wait" /\ pc' = "idle")
             => (ret'.kind = "id" /\ NumLt(waitArg, ret'.timestamp))]_vars

\* a call is waiting after a reading that did not end the wait
C6_Witness ==
    /\ pc = "wait"
    /\ ret.kind = "waiting"
    /\ ret.timestamp # ret.first

\* C7 (as claimed): no clock reading taken during getId that is lower than
\* lastTimestamp leaves the call waiting; the call throws instead.
C7_NeverWaitsOutBackwardClock ==
    (ret.kind = "waiting" /\ NumLt(ret.timestamp, gen.lastTimestamp)) => pc = "idle"

\* C27: the n-th id in a row that an instance returns for one timestamp has
\* sequence n - 1: the first id of a timestamp (the first id ever included)
\* has sequence 0 and each further one the sequence of its predecessor plus 1.
C27_SequencesCountUp ==
    \A l \in issued.last :
        /\ l.sequence = l.count - 1
        /\ BitAnd(ParseBigInt(l.id), MAX_SEQUENCE) = l.count - 1
        /\ \A p \in issued.maxPair :
               IF p[1] = l.lastTimestamp THEN l.sequence = p[2] + 1 ELSE l.sequence = 0

\* the third id of a millisecond that is not the first one of the instance
C27_Witness ==
    /\ ret.kind = "id"
    /\ \E l \in issued.last :
           /\ l.count = 3
           /\ l.sequence = 2
           /\ NumLt(ClockBase, l.lastTimestamp)

\* C28: sequence stays in [0, 4095]; workerId and processId are in [0, 31]
\* and no step changes them; no step lowers lastTimestamp.
C28_FieldInvariants ==
    /\ [](gen # Undefined =>
             /\ gen.sequence \in 0..MAX_SEQUENCE
             /\ gen.workerId \in 0..MAX_WORKER_ID
             /\ gen.processId \in 0..MAX_PROCESS_ID)
    /\ [][(gen # Undefined /\ gen' # Undefined) =>
             /\ gen'.workerId = gen.workerId
             /\ gen'.processId = gen.processId
             /\ NumLe(gen.lastTimestamp, gen'.lastTimestamp)]_vars

\* the last id of a full millisecond that is not the first one, from an
\* instance constructed with the largest workerId
C28_Witness ==
    /\ ret.kind = "id"
    /\ gen.sequence = MAX_SEQUENCE
    /\ gen.workerId = MAX_WORKER_ID
    /\ NumLt(ClockBase, gen.lastTimestamp)
    /\ issued.maxPair # {}

-----------------------------------------------------------------------------
(* The constructor over every shape of its argument (CtorSpec).            *)

\* the constructor call under test
FirstConstruct(options) == ret.kind = "none" /\ Construct(options)

CtorNext == \E options \in AllOptions : FirstConstruct(options)

CtorSpec == Init /\ [][CtorNext]_vars

\* the value a constructor argument stands for: 1 when it is omitted
GivenOr1(options, f) ==
    IF options # Undefined /\ f \in DOMAIN options THEN options[f] ELSE 1

ConstructorEnded == ret.kind = "constructed" \/ (ret.kind = "throw" /\ ret.call = "constructor")

\* C8: construction fails if and only if workerId or processId (1 when
\* omitted) lies outside [0, 31]; a generator that was built starts with
\* lastTimestamp = -1 and sequence = 0.
C8_ConstructionRange ==
    ConstructorEnded =>
        LET w == GivenOr1(ret.options, "workerId")
            p == GivenOr1(ret.options, "processId")
        IN  /\ (ret.kind = "throw") <=> (w \notin 0..31 \/ p \notin 0..31)
            /\ ret.kind = "constructed" =>
                   /\ gen.workerId = w
                   /\ gen.processId = p
                   /\ NumSub(gen.lastTimestamp, Num(0, 0)) = -1
                   /\ gen.sequence = 0
            /\ ret.kind = "throw" => gen = Undefined

\* workerId 32 was refused
C8_Witness ==
    /\ ret.kind = "throw"
    /\ ret.call = "constructor"
    /\ GivenOr1(ret.options, "workerId") = 32
    /\ GivenOr1(ret.options, "processId") = 1

\* C9: the error names the field: the Worker ID error exactly when workerId
\* is out of range, the Process ID error exactly when workerId is in range
\* and processId is out of range.
C9_ErrorNamesField ==
    ConstructorEnded =>
        LET w == GivenOr1(ret.options, "workerId")
            p == GivenOr1(ret.options, "processId")
            thrown(text) == ret.kind = "throw" /\ ret.error.message = <<text, 31>>
        IN  /\ thrown("Worker ID must be between 0 and ") <=> (w \notin 0..31)
            /\ thrown("Process ID must be between 0 and ")
                   <=> (w \in 0..31 /\ p \notin 0..31)

\* both fields out of range: the error names the worker id
C9_Witness ==
    /\ ret.kind = "throw"
    /\ ret.call = "constructor"
    /\ GivenOr1(ret.options, "workerId") = 32
    /\ GivenOr1(ret.options, "processId") = -1
    /\ ret.error.message[1] = "Worker ID must be between 0 and "

-----------------------------------------------------------------------------
(* getId followed by deconstruct, from generators of every identity        *)
(* (RoundTripSpec).  A generator starts as constructed, or as earlier      *)
(* calls left it: lastTimestamp a clock reading and any sequence reached   *)
(* in that millisecond.                                                    *)

\* sequences the generator starts from: the next ones are 1, 0x555, 0xAAA,
\* 4095 and the wrap to 0
SeedSequences == {0, 1364, 2729, MAX_SEQUENCE - 1, MAX_SEQUENCE}

RoundTripOptions ==
    {[workerId |-> w, processId |-> p] : w \in 0..MAX_WORKER_ID, p \in 0..MAX_PROCESS_ID}
    \cup {[workerId |-> w, processId |-> p, epoch |-> CustomEpoch] :
             w \in 0..MAX_WORKER_ID, p \in 0..MAX_PROCESS_ID}

RoundTripInit ==
    /\ \E options \in RoundTripOptions :
          \E g \in {NewSnowflakeGenerator(options).object} :
              \/ gen = g
              \/ \E t \in CallReadings, s \in SeedSequences :
                    gen = [g EXCEPT !.lastTimestamp = t, !.sequence = s]
    /\ pc = "idle"
    /\ waitArg = Undefined
    /\ ret = [kind |-> "none"]
    /\ issued = NoHistory
    /\ instance = Undefined
    /\ svcRet = [kind |-> "none"]
    /\ svcIds = {}
    /\ served = NotServed
    /\ peers = Undefined
    /\ racing = Undefined
    /\ nano = Undefined
    /\ decoded = {}
    /\ retry = Undefined

\* the first getId call on the generator
FirstGetId(timestamp) == issued.last = {} /\ ret.kind = "none" /\ GetIdCall(timestamp)

RoundTripNext ==
    \/ \E timestamp \in CallReadings : FirstGetId(timestamp)
    \/ \E timestamp \in WaitReadings : WaitNextMillis(timestamp)
    \/ DeconstructCall

RoundTripSpec == RoundTripInit /\ [][RoundTripNext]_vars

\* C10: deconstruct of the id getId returned gives back the generator's
\* workerId and processId, the sequence of the id and, as timestamp, the
\* clock reading the id was built from (lastTimestamp), for readings >= epoch.
C10_RoundTrip ==
    (ret.kind = "deconstructed" /\ NumLe(gen.epoch, ret.timestamp)) =>
        /\ ret.value.workerId = gen.workerId
        /\ ret.value.processId = gen.processId
        /\ ret.value.sequence = gen.sequence
        /\ ret.value.timestamp = ret.timestamp
        /\ ret.timestamp = gen.lastTimestamp
        /\ \A l \in issued.last : l.id = ret.id /\ l.sequence = gen.sequence

\* an id with all identity bits set and sequence 0xAAA, under a custom epoch
C10_Witness ==
    /\ ret.kind = "deconstructed"
    /\ gen.workerId = 31
    /\ gen.processId = 31
    /\ gen.sequence = 2730
    /\ gen.epoch = CustomEpoch
    /\ NumLt(gen.epoch, ret.timestamp)

-----------------------------------------------------------------------------
(* deconstruct calls between the getId calls of one generator (DecodeSpec). *)
(* deconstruct is given the id getId returned last, an id it was given     *)
(* before, or an id that did not come from this generator.                 *)

\* ids whose deconstruct calls are followed
MaxDecoded == 2

\* ids followed within one millisecond, short of the last two sequences
MaxDecodeSequence == 2

\* ids that no getId call of the generator returned: -1 and 2^23 - 1
ForeignIds == {ToString(-1), ToString(Pow2(SEQUENCE_BITS + 11) - 1)}

DecodeOptions ==
    { Undefined,
      [workerId |-> MAX_WORKER_ID, processId |-> MAX_PROCESS_ID, epoch |-> CustomEpoch] }

DecodeInit ==
    /\ \E options \in DecodeOptions :
          \E g \in {NewSnowflakeGenerator(options).object} :
              \/ gen = g
              \/ gen = [g EXCEPT !.lastTimestamp = ClockBase,
                                 !.sequence = MAX_SEQUENCE - 1]
    /\ pc = "idle"
    /\ waitArg = Undefined
    /\ ret = [kind |-> "none"]
    /\ issued = NoHistory
    /\ instance = Undefined
    /\ svcRet = [kind |-> "none"]
    /\ svcIds = {}
    /\ served = NotServed
    /\ peers = Undefined
    /\ racing = Undefined
    /\ nano = Undefined
    /\ decoded = {}
    /\ retry = Undefined

\* getId, followed up to MaxDecodeSequence within a millisecond
DecodeGetId(timestamp) ==
    /\ ~(/\ timestamp = gen.lastTimestamp
         /\ MaxDecodeSequence <= gen.sequence
         /\ gen.sequence < MAX_SEQUENCE - 1)
    /\ GetIdCall(timestamp)

\* the history after deconstruct(id) returned `value`: the first call with an
\* id is remembered, and whether the id was then the latest one getId returned
Decoded(h, latest, id, value) ==
    IF \E d \in h : d.id = id THEN h
    ELSE h \cup {[id |-> id, value |-> value, latest |-> \E l \in latest : l.id = id]}

\* (deconstruct clears the sequence)
DeconstructId_Resets(id) ==
    /\ pc = "idle"
    /\ Cardinality({d.id : d \in decoded} \cup {id}) <= MaxDecoded
    /\ gen' = [gen EXCEPT !.sequence = 0]
    /\ ret' = [kind |-> "deconstructed", id |-> id, value |-> Deconstruct(gen, id)]
    /\ decoded' = Decoded(decoded, issued.last, id, ret'.value)
    /\ UNCHANGED <<pc, waitArg, issued, svcVars, peers, racing, nano, retry>>

\* deconstruct(id)
DeconstructId(id) ==
    /\ pc = "idle"
    /\ Cardinality({d.id : d \in decoded} \cup {id}) <= MaxDecoded
    /\ ret' = [kind |-> "deconstructed", id |-> id, value |-> Deconstruct(gen, id)]
    /\ decoded' = Decoded(decoded, issued.last, id, ret'.value)
    /\ UNCHANGED <<gen, pc, waitArg, issued, svcVars, peers, racing, nano, retry>>

\* the ids deconstruct is called with
DeconstructArgs == ForeignIds \cup {l.id : l \in issued.last} \cup {d.id : d \in decoded}

DecodeNext ==
    \/ \E timestamp \in CallReadings : DecodeGetId(timestamp)
    \/ \E timestamp \in WaitReadings : WaitNextMillis(timestamp)
    \/ \E id \in DeconstructArgs : DeconstructId(id)

DecodeSpec == DecodeInit /\ [][DecodeNext]_vars

\* C24: a deconstruct call leaves lastTimestamp and sequence as they were, the
\* getId calls that follow it end as they would have ended without it, and
\* it returns what the first deconstruct call with the same id returned,
\* whatever state the generator was in at each call.
C24_DeconstructPure ==
    [][ret'.kind = "deconstructed" =>
          /\ gen'.lastTimestamp = gen.lastTimestamp
          /\ gen'.sequence = gen.sequence
          /\ \A timestamp \in CallReadings :
                 GetIdOutcomes(gen', timestamp, WaitReadings)
                     = GetIdOutcomes(gen, timestamp, WaitReadings)
          /\ \A d \in decoded' : d.id = ret'.id => d.value = ret'.value]_vars

\* an id of this generator was deconstructed when it was the latest id and
\* again after a later getId call changed lastTimestamp or sequence
C24_Witness ==
    /\ ret.kind = "deconstructed"
    /\ ret.id \notin ForeignIds
    /\ \E d \in decoded : d.id = ret.id /\ d.latest
    /\ issued.last # {}
    /\ \A l \in issued.last : l.id # ret.id

-----------------------------------------------------------------------------
(* getId called again after it failed (RetrySpec).  The instance remembers *)
(* whether the calls since its latest id failed; each call remembers the   *)
(* reading it started on and the fields it found.                          *)

\* ids followed
MaxRetryIds == 3

RetryOptions ==
    { Undefined,
      [workerId |-> MAX_WORKER_ID, processId |-> MAX_PROCESS_ID, epoch |-> CustomEpoch] }

\* sequences the instance starts from
RetrySequences == {0, MAX_SEQUENCE - 1, MAX_SEQUENCE}

RetryInit ==
    /\ \E options \in RetryOptions :
          \E g0 \in {NewSnowflakeGenerator(options).object} :
              \E g \in {g0} \cup {[g0 EXCEPT !.lastTimestamp = t, !.sequence = s] :
                                     t \in CallReadings, s \in RetrySequences} :
                  retry = [g |-> g, pc |-> "idle", waitArg |-> Undefined,
                           failed |-> FALSE, call |-> Undefined, ids |-> {},
                           out |-> [kind |-> "none"]]
    /\ gen = Undefined
    /\ pc = "idle"
    /\ waitArg = Undefined
    /\ ret = [kind |-> "none"]
    /\ issued = NoHistory
    /\ instance = Undefined
    /\ svcRet = [kind |-> "none"]
    /\ svcIds = {}
    /\ served = NotServed
    /\ peers = Undefined
    /\ racing = Undefined
    /\ nano = Undefined
    /\ decoded = {}

\* getId returns: lines 85-95
RetryReturn(g, call, timestamp) ==
    \E e \in {GetIdEnd(g, timestamp)} :
        retry' = [g |-> e.g, pc |-> "idle", waitArg |-> Undefined, failed |-> FALSE,
                  call |-> Undefined, ids |-> retry.ids \cup {ParseBigInt(e.id)},
                  out |-> [kind |-> "id", id |-> e.id, call |-> call,
                           earlier |-> retry.ids]]

\* getId is called and reads the clock (lines 62-83)
RetryGetId(timestamp) ==
    /\ retry.pc = "idle"
    /\ Cardinality(retry.ids) < MaxRetryIds
    /\ \E b \in {GetIdBegin(retry.g, timestamp)},
          call \in {[first |-> timestamp, afterFailure |-> retry.failed,
                     lastTimestamp |-> retry.g.lastTimestamp,
                     sequence |-> retry.g.sequence]} :
           \/ /\ b.next = "throw"
              /\ retry' = [retry EXCEPT !.g = b.g, !.failed = TRUE,
                                        !.out = [kind |-> "throw", call |-> call,
                                                 error |-> b.error]]
           \/ /\ b.next = "wait"
              /\ retry' = [retry EXCEPT !.g = b.g, !.pc = "wait", !.waitArg = timestamp,
                                        !.call = call,
                                        !.out = [kind |-> "waiting", call |-> call]]
           \/ /\ b.next = "build"
              /\ RetryReturn(b.g, call, timestamp)
    /\ UNCHANGED <<genVars, svcVars, peers, racing, nano, decoded>>

\* one clock reading of waitNextMillis (lines 142-148)
RetryWaitNextMillis(timestamp) ==
    /\ retry.pc = "wait"
    /\ \/ /\ StillWaiting(timestamp, retry.waitArg)
          /\ UNCHANGED retry
       \/ /\ ~StillWaiting(timestamp, retry.waitArg)
          /\ RetryReturn(retry.g, retry.call, timestamp)
    /\ UNCHANGED <<genVars, svcVars, peers, racing, nano, decoded>>

RetryNext ==
    \/ \E timestamp \in CallReadings : RetryGetId(timestamp)
    \/ \E timestamp \in WaitReadings : RetryWaitNextMillis(timestamp)

RetrySpec == RetryInit /\ [][RetryNext]_vars

\* C25: a getId call that failed with the clock error (its reading was lower
\* than lastTimestamp) left lastTimestamp and sequence as it found them.
C25_FailureChangesNothing ==
    retry.out.kind = "throw" =>
        /\ retry.g.lastTimestamp = retry.out.call.lastTimestamp
        /\ retry.g.sequence = retry.out.call.sequence
        /\ NumLt(retry.out.call.first, retry.out.call.lastTimestamp)
        /\ retry.pc = "idle"

\* a call failed on an instance that had returned ids and was in the middle
\* of a millisecond
C25_Witness ==
    /\ retry.out.kind = "throw"
    /\ retry.ids # {}
    /\ retry.g.sequence > 0
    /\ NumLt(retry.out.call.first, retry.g.lastTimestamp)

\* C26: after getId failed, a call that starts on a reading >= lastTimestamp
\* does not fail; the id it returns is greater than every id returned before,
\* and when the reading equals lastTimestamp and the sequence has room the id
\* carries that timestamp and the next sequence.
C26_RecoversAfterRegression ==
    \A call \in {retry.out.call : k \in {retry.out.kind} \ {"none"}} :
        (call.afterFailure /\ NumLe(call.lastTimestamp, call.first)) =>
            /\ retry.out.kind # "throw"
            /\ retry.out.kind = "waiting" =>
                   (call.first = call.lastTimestamp /\ call.sequence = MAX_SEQUENCE)
            /\ retry.out.kind = "id" =>
                   /\ \A earlier \in retry.out.earlier :
                          earlier < ParseBigInt(retry.out.id)
                   /\ (call.first = call.lastTimestamp /\ call.sequence < MAX_SEQUENCE) =>
                          /\ retry.g.lastTimestamp = call.lastTimestamp
                          /\ retry.g.sequence = call.sequence + 1
                          /\ retry.out.id = ToString(PackId(retry.g, call.first))

\* a call after a failure started on the reading lastTimestamp and returned
\* the id with the next sequence, after earlier ids
C26_Witness ==
    /\ retry.out.kind = "id"
    /\ retry.out.call.afterFailure
    /\ retry.out.call.first = retry.out.call.lastTimestamp
    /\ retry.out.earlier # {}
    /\ retry.g.sequence > 0

-----------------------------------------------------------------------------
(* IdService.                                                              *)

\* options.f of an options object, Undefined when it is absent
Get(options, f) == IF Has(options, f) THEN options[f] ELSE Undefined

\* options.type || 'uuidv4'
TypeOf(options) == IF Has(options, "type") THEN options.type ELSE "uuidv4"

\* (the types that are not implemented fall back to UUID v4)
CreateGenerator_FallBack(type, options) ==
    CASE type = "snowflake" ->
            LET r == NewSnowflakeGenerator(Get(options, "snowflake"))
            IN  IF r.kind = "throw" THEN r
                ELSE [kind |-> "object",
                      object |-> [class |-> "SnowflakeGenerator", fields |-> r.object]]
      [] type = "nanoid" ->
            [kind |-> "object",
             object |-> [class |-> "NanoIdGenerator", options |-> Get(options, "nanoid")]]
      [] OTHER ->
            [kind |-> "object", object |-> [class |-> "UuidV4Generator"]]

\* createGenerator(type, options): the generator built, or the error thrown
CreateGenerator(type, options) ==
    CASE type = "uuidv4" ->
            [kind |-> "object", object |-> [class |-> "UuidV4Generator"]]
      [] type = "uuidv7" ->
            [kind |-> "throw",
             error |-> [message |-> <<"UUIDv7 generator not yet implemented">>]]
      [] type = "snowflake" ->
            LET r == NewSnowflakeGenerator(Get(options, "snowflake"))
            IN  IF r.kind = "throw" THEN r
                ELSE [kind |-> "object",
                      object |-> [class |-> "SnowflakeGenerator", fields |-> r.object]]
      [] type = "cuid" ->
            [kind |-> "throw",
             error |-> [message |-> <<"CUID generator not yet implemented">>]]
      [] type = "nanoid" ->
            [kind |-> "object",
             object |-> [class |-> "NanoIdGenerator", options |-> Get(options, "nanoid")]]
      [] OTHER ->
            [kind |-> "object", object |-> [class |-> "UuidV4Generator"]]

\* new IdService(options): the constructor's parameter defaults to {}
NewIdService(options) ==
    LET given == IF options = Undefined THEN EmptyObject ELSE options
        made == CreateGenerator(TypeOf(given), given)
    IN  IF made.kind = "throw" THEN made
        ELSE [kind |-> "object",
              object |-> [options |-> given, generator |-> made.object]]

\* the arguments getInstance is called with
ServiceOptions ==
    { Undefined,
      [snowflake |-> [workerId |-> 1, processId |-> 1]],
      [snowflake |-> [workerId |-> 2, processId |-> 3]],
      [type |-> "snowflake", snowflake |-> [workerId |-> 1, processId |-> 1]],
      [type |-> "snowflake", snowflake |-> [workerId |-> MAX_WORKER_ID + 1]],
      [type |-> "nanoid"],
      [type |-> "uuidv7"],
      [type |-> "cuid"] }

\* whether r is the outcome of a getInstance call that threw
FailedGetInstance(r) == r.kind = "throw" /\ r.call = "getInstance"

\* the arguments getSnowflake is called with
SnowflakeCallOptions ==
    { Undefined,
      [workerId |-> 1, processId |-> 1],
      [workerId |-> 5, processId |-> 10, epoch |-> CustomEpoch],
      [workerId |-> 5],
      [workerId |-> -1] }

\* (a new service on every call)
GetInstance_AlwaysNew(options) ==
    /\ \E made \in {NewIdService(options)} :
          /\ instance' = IF made.kind = "object" THEN made.object ELSE instance
          /\ svcRet' = IF made.kind = "object"
                       THEN [kind |-> "instance", call |-> "getInstance",
                             options |-> options, value |-> made.object,
                             afterFailure |-> FailedGetInstance(svcRet)]
                       ELSE [kind |-> "throw", call |-> "getInstance",
                             options |-> options, error |-> made.error]
    /\ UNCHANGED <<svcIds, served, genVars, otherVars>>

\* (the service stored before its generator has been created)
GetInstance_KeepsFailed(options) ==
    /\ \E made \in {IF instance = Undefined THEN NewIdService(options)
                    ELSE [kind |-> "object", object |-> instance]} :
          /\ instance' = IF made.kind = "object" THEN made.object
                         ELSE [options |-> IF options = Undefined THEN EmptyObject
                                           ELSE options,
                               generator |-> Undefined]
          /\ svcRet' = IF made.kind = "object"
                       THEN [kind |-> "instance", call |-> "getInstance",
                             options |-> options, value |-> made.object,
                             afterFailure |-> FailedGetInstance(svcRet)]
                       ELSE [kind |-> "throw", call |-> "getInstance",
                             options |-> options, error |-> made.error]
    /\ UNCHANGED <<svcIds, served, genVars, otherVars>>

\* IdService.getInstance(options); afterFailure tells whether the call before
\* it was a getInstance call that threw
GetInstance(options) ==
    /\ \E made \in {IF instance = Undefined THEN NewIdService(options)
                    ELSE [kind |-> "object", object |-> instance]} :
          /\ instance' = IF made.kind = "object" THEN made.object ELSE instance
          /\ svcRet' = IF made.kind = "object"
                       THEN [kind |-> "instance", call |-> "getInstance",
                             options |-> options, value |-> made.object,
                             afterFailure |-> FailedGetInstance(svcRet)]
                       ELSE [kind |-> "throw", call |-> "getInstance",
                             options |-> options, error |-> made.error]
    /\ UNCHANGED <<svcIds, served, genVars, otherVars>>

\* the ids of earlier getSnowflake() calls, the latest call's included
SeenIds == svcIds \cup (IF svcRet.kind = "id" /\ svcRet.options = Undefined
                        THEN {svcRet.id} ELSE {})

\* (the generator has been used in this millisecond before)
GetSnowflake_UsedGenerator(options, timestamp) ==
    /\ instance # Undefined
    /\ \E made \in {NewSnowflakeGenerator(IF options # Undefined THEN options
                                          ELSE Get(instance.options, "snowflake"))} :
          IF made.kind = "throw"
          THEN svcRet' = [kind |-> "throw", call |-> "getSnowflake",
                          options |-> options, error |-> made.error]
          ELSE \E out \in GetIdOutcomes([made.object EXCEPT !.lastTimestamp = timestamp],
                                        timestamp, WaitReadings) :
                  svcRet' = IF out.kind = "id"
                            THEN [kind |-> "id", call |-> "getSnowflake",
                                  options |-> options, id |-> out.id,
                                  timestamp |-> timestamp]
                            ELSE [kind |-> "throw", call |-> "getSnowflake",
                                  options |-> options, error |-> out.error]
    /\ svcIds' = SeenIds
    /\ UNCHANGED <<instance, served, genVars, otherVars>>

\* service.getSnowflake(options), the clock reading `timestamp`
GetSnowflake(options, timestamp) ==
    /\ instance # Undefined
    /\ \E made \in {NewSnowflakeGenerator(IF options # Undefined THEN options
                                          ELSE Get(instance.options, "snowflake"))} :
          IF made.kind = "throw"
          THEN svcRet' = [kind |-> "throw", call |-> "getSnowflake",
                          options |-> options, error |-> made.error]
          ELSE \E out \in GetIdOutcomes(made.object, timestamp, WaitReadings) :
                  svcRet' = IF out.kind = "id"
                            THEN [kind |-> "id", call |-> "getSnowflake",
                                  options |-> options, id |-> out.id,
                                  timestamp |-> timestamp]
                            ELSE [kind |-> "throw", call |-> "getSnowflake",
                                  options |-> options, error |-> out.error]
    /\ svcIds' = SeenIds
    /\ UNCHANGED <<instance, served, genVars, otherVars>>

SvcNext ==
    \/ \E options \in ServiceOptions : GetInstance(options)
    \/ \E options \in SnowflakeCallOptions, timestamp \in CallReadings :
          GetSnowflake(options, timestamp)

SvcSpec == Init /\ [][SvcNext]_vars

\* C3 (as claimed): on a service created with snowflake options, every id
\* that getSnowflake() without options returns differs from the ids its
\* earlier calls returned, also when calls read the same millisecond.
C3_SnowflakeCallsDistinct ==
    (/\ instance # Undefined
     /\ Has(instance.options, "snowflake")
     /\ svcRet.kind = "id"
     /\ svcRet.options = Undefined)
    => svcRet.id \notin svcIds

-----------------------------------------------------------------------------
(* getId for clock readings far from the epoch.  The id then exceeds a     *)
(* machine integer: a BigInt v >= 0 is held as three limbs <<d2, d1, d0>>  *)
(* with v = d2 * 2^44 + d1 * 2^22 + d0 and 0 <= d1, d0 < 2^22.             *)

WIDE == Pow2(TIMESTAMP_SHIFT)

\* a - b for two millisecond values, as a millisecond value
NumMinus(a, b) ==
    Num(a.hi - b.hi + ((a.lo - b.lo) \div LIMB), (a.lo - b.lo) % LIMB)

\* a + b for two millisecond values
NumPlus(a, b) ==
    Num(a.hi + b.hi + ((a.lo + b.lo) \div LIMB), (a.lo + b.lo) % LIMB)

\* BigInt(n) for a millisecond value 0 <= n <= 2^42, as the pair <<n div 2^22,
\* n mod 2^22>>.  hi * LIMB is formed in two halves of hi that fit a machine
\* integer.
BigIntOf(n) ==
    LET half == Pow2(11)
        a == (n.hi \div half) * LIMB
        b == (n.hi % half) * LIMB
        low == (a % half) * half + (b % WIDE) + n.lo
    IN  <<(a \div half) + (b \div WIDE) + (low \div WIDE), low % WIDE>>

\* v div 10 and v mod 10 by long division over the limbs
DivMod10(v) ==
    LET x1 == (v[1] % 10) * WIDE + v[2]
        x0 == (x1 % 10) * WIDE + v[3]
    IN  [quotient |-> <<v[1] \div 10, x1 \div 10, x0 \div 10>>, remainder |-> x0 % 10]

RECURSIVE DigitsWide(_)
DigitsWide(v) ==
    LET d == DivMod10(v)
    IN  IF d.quotient = <<0, 0, 0>> THEN <<DigitChars[d.remainder + 1]>>
        ELSE Append(DigitsWide(d.quotient), DigitChars[d.remainder + 1])

\* -v over the limbs
NegWide(v) ==
    LET x0 == 0 - v[3]
        x1 == (0 - v[2]) + (x0 \div WIDE)
    IN  <<(0 - v[1]) + (x1 \div WIDE), x1 % WIDE, x0 % WIDE>>

\* id.toString() (line 95): decimal digits, "-" first for a negative value
ToStringWide(v) == IF v[1] < 0 THEN <<"-">> \o DigitsWide(NegWide(v)) ELSE DigitsWide(v)

\* 10 * v + d over the limbs
Times10Plus(v, d) ==
    LET x0 == 10 * v[3] + d
        x1 == 10 * v[2] + (x0 \div WIDE)
    IN  <<10 * v[1] + (x1 \div WIDE), x1 % WIDE, x0 % WIDE>>

RECURSIVE ParseDigitsWide(_)
ParseDigitsWide(s) ==
    IF Len(s) = 0 THEN <<0, 0, 0>>
    ELSE Times10Plus(ParseDigitsWide(SubSeq(s, 1, Len(s) - 1)), DigitValue(s[Len(s)]))

\* BigInt(string) for a decimal literal with an optional sign
ParseBigIntWide(s) ==
    IF Len(s) > 0 /\ s[1] = "-" THEN NegWide(ParseDigitsWide(Tail(s)))
    ELSE ParseDigitsWide(s)

\* (the worker id shifted into the bits of the process id)
PackIdWide_Overlap(g, timestamp) ==
    LET timestampBits == BigIntOf(NumMinus(timestamp, g.epoch))
    IN  <<timestampBits[1], timestampBits[2],
          BitOr(BitOr(BitOr(0, Shl(g.workerId, PROCESS_ID_SHIFT)),
                      Shl(g.processId, PROCESS_ID_SHIFT)),
                g.sequence)>>

\* timestampBits | workerIdBits | processIdBits | sequenceBits (lines 88-93):
\* the timestamp offset shifted left by 22 leaves the lowest limb 0
PackIdWide(g, timestamp) ==
    LET timestampBits == BigIntOf(NumMinus(timestamp, g.epoch))
    IN  <<timestampBits[1], timestampBits[2],
          BitOr(BitOr(BitOr(0, Shl(g.workerId, WORKER_ID_SHIFT)),
                      Shl(g.processId, PROCESS_ID_SHIFT)),
                g.sequence)>>

\* Lines 85-95 of getId with the id held in limbs
GetIdEndWide(g, timestamp) ==
    LET g2 == [g EXCEPT !.lastTimestamp = timestamp]
    IN  [g |-> g2, id |-> ToStringWide(PackIdWide(g2, timestamp))]

\* new Date('2020-01-01T00:00:00.000Z').getTime(), 1577836800000
TestEpoch == Num(1577836, 800000)

\* identities and epochs of the generators followed
FarOptions ==
    {Undefined}
    \cup {[workerId |-> w, processId |-> p] : w \in {0, 5, MAX_WORKER_ID},
                                             p \in {0, 10, MAX_PROCESS_ID}}
    \cup {[workerId |-> w, processId |-> p, epoch |-> TestEpoch] :
             w \in {0, 5, MAX_WORKER_ID}, p \in {0, 10, MAX_PROCESS_ID}}

\* 2^41 and 2^42 milliseconds
TwoTo41 == Num(2199023, 255552)
TwoTo42 == Num(4398046, 511104)

\* how far past its epoch (or before it) a generator finds the clock
FarOffsets ==
    { NumAdd(Num(0, 0), -1000), Num(0, 0), Num(0, 1000),
      NumAdd(Num(0, 0), WIDE - 1), NumAdd(Num(0, 0), WIDE),
      NumAdd(TwoTo41, -1), TwoTo41, NumAdd(TwoTo42, -1), TwoTo42 }

\* sequences the generator starts from
FarSequences == {0, 1364, MAX_SEQUENCE - 1, MAX_SEQUENCE}

\* A generator as constructed, or as earlier calls left it at some offset.
FarInit ==
    /\ \E options \in FarOptions :
          \E g \in {NewSnowflakeGenerator(options).object} :
              \/ gen = g
              \/ \E o \in FarOffsets, s \in FarSequences :
                    gen = [g EXCEPT !.lastTimestamp = NumPlus(g.epoch, o), !.sequence = s]
    /\ pc = "idle"
    /\ waitArg = Undefined
    /\ ret = [kind |-> "none"]
    /\ issued = NoHistory
    /\ instance = Undefined
    /\ svcRet = [kind |-> "none"]
    /\ svcIds = {}
    /\ served = NotServed
    /\ peers = Undefined
    /\ racing = Undefined
    /\ nano = Undefined
    /\ decoded = {}
    /\ retry = Undefined

\* what Date.now() may return to a generator in state g: any offset for a new
\* generator, else the millisecond of the last id, the one before or the next
FarReadings(g) ==
    IF g.lastTimestamp = INITIAL_LAST_TIMESTAMP
    THEN {NumPlus(g.epoch, o) : o \in FarOffsets}
    ELSE {NumAdd(g.lastTimestamp, k) : k \in -1..1}

\* getId returns: lines 85-95
ReturnFar(g, first, timestamp, waited) ==
    \E e \in {GetIdEndWide(g, timestamp)} :
        /\ gen' = e.g
        /\ ret' = [kind |-> "id", id |-> e.id, first |-> first,
                   timestamp |-> timestamp, waited |-> waited]
        /\ pc' = "idle"
        /\ waitArg' = Undefined

\* the first getId call on the generator (lines 62-83)
GetIdFar(timestamp) ==
    /\ pc = "idle"
    /\ ret.kind = "none"
    /\ \E b \in {GetIdBegin(gen, timestamp)} :
           \/ /\ b.next = "throw"
              /\ gen' = b.g
              /\ ret' = [kind |-> "throw", call |-> "getId", first |-> timestamp,
                         error |-> b.error]
              /\ UNCHANGED <<pc, waitArg>>
           \/ /\ b.next = "wait"
              /\ gen' = b.g
              /\ pc' = "wait"
              /\ waitArg' = timestamp
              /\ ret' = [kind |-> "waiting", first |-> timestamp, timestamp |-> timestamp]
           \/ /\ b.next = "build"
              /\ ReturnFar(b.g, timestamp, timestamp, FALSE)
    /\ UNCHANGED <<issued, svcVars, otherVars>>

\* one clock reading of waitNextMillis and the test of its loop (lines 142-148)
WaitNextMillisFar(timestamp) ==
    /\ pc = "wait"
    /\ \/ /\ StillWaiting(timestamp, waitArg)
          /\ ret' = [ret EXCEPT !.timestamp = timestamp]
          /\ UNCHANGED <<gen, pc, waitArg>>
       \/ /\ ~StillWaiting(timestamp, waitArg)
          /\ ReturnFar(gen, ret.first, timestamp, TRUE)
    /\ UNCHANGED <<issued, svcVars, otherVars>>

FarNext ==
    \/ \E timestamp \in FarReadings(gen) : GetIdFar(timestamp)
    \/ \E k \in -1..1 : WaitNextMillisFar(NumAdd(waitArg, k))

FarSpec == FarInit /\ [][FarNext]_vars

-----------------------------------------------------------------------------
(* Properties of the id layout (FarSpec).                                  *)

\* the four fields of the id getId has just returned, as the claim sums them:
\* (timestamp - epoch) * 2^22 in the upper limbs, the rest in the lowest
LayoutSum ==
    LET offset == BigIntOf(NumMinus(ret.timestamp, gen.epoch))
    IN  <<offset[1], offset[2],
          gen.workerId * (2 ^ 17) + gen.processId * (2 ^ 12) + gen.sequence>>

\* C11: the id getId returns is the decimal form of (timestamp - epoch) * 2^22
\* + workerId * 2^17 + processId * 2^12 + sequence; the three low fields stay
\* inside their 5, 5 and 12 bits, and the value is below 2^63 when the offset
\* is in [0, 2^41).  Offset 1000 of worker 5, process 10, sequence 0 gives
\* 4195000320; the largest id of offset 2^41 - 1 is 2^63 - 1.
C11_Layout ==
    ret.kind = "id" =>
        LET offset == NumMinus(ret.timestamp, gen.epoch)
            id == ParseBigIntWide(ret.id)
        IN  /\ id = LayoutSum
            /\ ret.id = ToStringWide(LayoutSum)
            /\ gen.workerId \in 0..(2 ^ 5 - 1)
            /\ gen.processId \in 0..(2 ^ 5 - 1)
            /\ gen.sequence \in 0..(2 ^ 12 - 1)
            /\ id[3] \in 0..(2 ^ 22 - 1)
            /\ (NumLe(Num(0, 0), offset) /\ NumLt(offset, TwoTo41))
                   => (id[1] \in 0..(2 ^ 19 - 1) /\ id[2] \in 0..(2 ^ 22 - 1))
            /\ (offset = Num(0, 1000) /\ gen.workerId = 5 /\ gen.processId = 10
                    /\ gen.sequence = 0)
                   => ret.id = <<"4", "1", "9", "5", "0", "0", "0", "3", "2", "0">>
            /\ (offset = NumAdd(TwoTo41, -1) /\ gen.workerId = 31 /\ gen.processId = 31
                    /\ gen.sequence = 4095)
                   => ret.id = <<"9", "2", "2", "3", "3", "7", "2", "0", "3", "6",
                                 "8", "5", "4", "7", "7", "5", "8", "0", "7">>

\* the largest id of the last millisecond of the 41-bit range was returned
C11_Witness ==
    /\ ret.kind = "id"
    /\ NumMinus(ret.timestamp, gen.epoch) = NumAdd(TwoTo41, -1)
    /\ gen.workerId = 31
    /\ gen.processId = 31
    /\ gen.sequence = 4095
    /\ gen.epoch = TestEpoch

\* C12 (as claimed): whatever epoch the generator was built with and whatever
\* the clock reads, the string getId returns is made of decimal digits only
\* and its value is in [0, 2^64).
C12_DecimalU64 ==
    ret.kind = "id" =>
        /\ \A i \in 1..Len(ret.id) : \E d \in 1..10 : ret.id[i] = DigitChars[d]
        /\ ParseBigIntWide(ret.id)[1] \in 0..(2 ^ 20 - 1)

-----------------------------------------------------------------------------
(* Two generator instances that share nothing (PeerSpec).  Each instance   *)
(* has its own fields and its own getId calls; the calls of the two        *)
(* interleave freely and each reads the clock on its own.                  *)

\* ids followed per instance
MaxPeerIds == 2

PeerNames == {"a", "b"}

\* (workerId, processId) of the instances
PeerIdentities == {<<0, 0>>, <<0, MAX_PROCESS_ID>>, <<1, 0>>, <<MAX_WORKER_ID, MAX_PROCESS_ID>>}

\* sequences an instance starts from
PeerSequences == {0, MAX_SEQUENCE - 1, MAX_SEQUENCE}

\* the epochs of the two instances: none given, or one later than the first
\* clock reading
PeerEpochs == {<<Undefined, Undefined>>, <<Undefined, CustomEpoch>>,
               <<CustomEpoch, CustomEpoch>>}

PeerOptions(identity, epoch) ==
    IF epoch = Undefined
    THEN [workerId |-> identity[1], processId |-> identity[2]]
    ELSE [workerId |-> identity[1], processId |-> identity[2], epoch |-> epoch]

\* an instance as constructed, or as earlier calls left it
PeerStates(options) ==
    LET g == NewSnowflakeGenerator(options).object
    IN  {g} \cup {[g EXCEPT !.lastTimestamp = t, !.sequence = s] :
                     t \in CallReadings, s \in PeerSequences}

PeerInit ==
    /\ \E ia \in PeerIdentities, ib \in PeerIdentities, epochs \in PeerEpochs :
          \E ga \in PeerStates(PeerOptions(ia, epochs[1])),
             gb \in PeerStates(PeerOptions(ib, epochs[2])) :
              peers = [a |-> [g |-> ga, pc |-> "idle", waitArg |-> Undefined,
                              ids |-> {}, stamped |-> {}],
                       b |-> [g |-> gb, pc |-> "idle", waitArg |-> Undefined,
                              ids |-> {}, stamped |-> {}]]
    /\ gen = Undefined
    /\ pc = "idle"
    /\ waitArg = Undefined
    /\ ret = [kind |-> "none"]
    /\ issued = NoHistory
    /\ instance = Undefined
    /\ svcRet = [kind |-> "none"]
    /\ svcIds = {}
    /\ served = NotServed
    /\ racing = Undefined
    /\ nano = Undefined
    /\ decoded = {}
    /\ retry = Undefined

\* getId returns on instance n: lines 85-95; `stamped` remembers each id with
\* the timestamp it was built from
PeerReturn(n, g, timestamp) ==
    \E e \in {GetIdEnd(g, timestamp)} :
        peers' = [peers EXCEPT ![n] = [g |-> e.g, pc |-> "idle", waitArg |-> Undefined,
                                       ids |-> peers[n].ids \cup {e.id},
                                       stamped |-> peers[n].stamped
                                                   \cup {<<e.g.lastTimestamp, e.id>>}]]

\* getId is called on instance n and reads the clock (lines 62-83)
PeerGetId(n, timestamp) ==
    /\ peers[n].pc = "idle"
    /\ Cardinality(peers[n].ids) < MaxPeerIds
    /\ \E b \in {GetIdBegin(peers[n].g, timestamp)} :
           \/ /\ b.next = "throw"
              /\ peers' = [peers EXCEPT ![n].g = b.g]
           \/ /\ b.next = "wait"
              /\ peers' = [peers EXCEPT ![n].g = b.g, ![n].pc = "wait",
                                        ![n].waitArg = timestamp]
           \/ /\ b.next = "build"
              /\ PeerReturn(n, b.g, timestamp)
    /\ UNCHANGED <<genVars, svcVars, racing, nano, decoded, retry>>

\* one clock reading of waitNextMillis on instance n (lines 142-148)
PeerWaitNextMillis(n, timestamp) ==
    /\ peers[n].pc = "wait"
    /\ \/ /\ StillWaiting(timestamp, peers[n].waitArg)
          /\ UNCHANGED peers
       \/ /\ ~StillWaiting(timestamp, peers[n].waitArg)
          /\ PeerReturn(n, peers[n].g, timestamp)
    /\ UNCHANGED <<genVars, svcVars, racing, nano, decoded, retry>>

PeerNext ==
    \/ \E n \in PeerNames, timestamp \in CallReadings : PeerGetId(n, timestamp)
    \/ \E n \in PeerNames, timestamp \in WaitReadings : PeerWaitNextMillis(n, timestamp)

PeerSpec == PeerInit /\ [][PeerNext]_vars

\* C13: two instances whose (workerId, processId) pairs differ never return
\* the same id, however their getId calls interleave and whatever each reads
\* from the clock.
C13_DistinctAcrossInstances ==
    <<peers.a.g.workerId, peers.a.g.processId>> # <<peers.b.g.workerId, peers.b.g.processId>>
        => peers.a.ids \cap peers.b.ids = {}

\* both instances returned ids in the same millisecond with the same sequence
\* and epoch: only the identity fields tell their ids apart
C13_Witness ==
    /\ <<peers.a.g.workerId, peers.a.g.processId>> # <<peers.b.g.workerId, peers.b.g.processId>>
    /\ peers.a.g.workerId = peers.b.g.workerId
    /\ peers.a.ids # {}
    /\ peers.b.ids # {}
    /\ peers.a.g.lastTimestamp = peers.b.g.lastTimestamp
    /\ peers.a.g.sequence = peers.b.g.sequence
    /\ peers.a.g.epoch = peers.b.g.epoch

\* C23: of two ids returned by instances with the same epoch (the same
\* instance or two instances, whatever their workerId, processId and
\* sequence), the one built from the smaller timestamp is the smaller number.
C23_OrderedByTime ==
    \A m \in PeerNames, n \in PeerNames :
        peers[m].g.epoch = peers[n].g.epoch
            => \A x \in peers[m].stamped, y \in peers[n].stamped :
                   NumLt(x[1], y[1]) => ParseBigInt(x[2]) < ParseBigInt(y[2])

\* the instance with the larger workerId and processId returned an id for an
\* earlier millisecond than an id of the other instance
C23_Witness ==
    /\ peers.a.g.epoch = peers.b.g.epoch
    /\ peers.a.g.workerId > peers.b.g.workerId
    /\ peers.a.g.processId > peers.b.g.processId
    /\ \E x \in peers.a.stamped, y \in peers.b.stamped :
           /\ NumLt(x[1], y[1])
           /\ BitAnd(ParseBigInt(x[2]), MAX_SEQUENCE) > BitAnd(ParseBigInt(y[2]), MAX_SEQUENCE)

-----------------------------------------------------------------------------
(* One generator instance shared by two getId invocations whose reads and  *)
(* writes of lastTimestamp and sequence interleave (RaceSpec).  Each       *)
(* invocation has its own local `timestamp`; a step is one read or one     *)
(* write of a field, with the test or the computation that uses it.        *)

Callers == {1, 2}

\* an invocation that has not started
NoCall == [pc |-> "ready", timestamp |-> Undefined, sequence |-> 0, out |-> [kind |-> "none"]]

\* sequences the instance starts from
RaceSequences == {0, MAX_SEQUENCE - 1, MAX_SEQUENCE}

RaceInit ==
    /\ \E g \in {NewSnowflakeGenerator(Undefined).object} :
          \E g0 \in {g} \cup {[g EXCEPT !.lastTimestamp = t, !.sequence = s] :
                                 t \in CallReadings, s \in RaceSequences} :
              racing = [g |-> g0, calls |-> [i \in Callers |-> NoCall], overlapped |-> FALSE]
    /\ gen = Undefined
    /\ pc = "idle"
    /\ waitArg = Undefined
    /\ ret = [kind |-> "none"]
    /\ issued = NoHistory
    /\ instance = Undefined
    /\ svcRet = [kind |-> "none"]
    /\ svcIds = {}
    /\ served = NotServed
    /\ peers = Undefined
    /\ nano = Undefined
    /\ decoded = {}
    /\ retry = Undefined

\* whether an invocation is between its first and its last step
Running(c) == c.pc \notin {"ready", "done"}

\* invocation i takes a step that leaves it as c and the instance as g
RaceStep(i, c, g) ==
    /\ racing' = [racing EXCEPT !.calls[i] = c, !.g = g]
    /\ UNCHANGED <<genVars, svcVars, peers, nano, decoded, retry>>

\* (line 85 left out)
RecordTimestamp_Skip(g, timestamp) == g

\* this.lastTimestamp = timestamp (line 85)
RecordTimestamp(g, timestamp) == [g EXCEPT !.lastTimestamp = timestamp]

\* line 63: let timestamp = this.getCurrentTimestamp()
RaceReadClock(i, timestamp) ==
    /\ racing.calls[i].pc = "ready"
    /\ racing' = [racing EXCEPT
                     !.calls[i] = [@ EXCEPT !.pc = "l66", !.timestamp = timestamp],
                     !.overlapped = @ \/ \E j \in Callers \ {i} : Running(racing.calls[j])]
    /\ UNCHANGED <<genVars, svcVars, peers, nano, decoded, retry>>

\* lines 66-70: if (timestamp < this.lastTimestamp) throw
RaceCheckRegression(i) ==
    LET c == racing.calls[i]
    IN  /\ c.pc = "l66"
        /\ IF ClockMovedBackwards(racing.g, c.timestamp)
           THEN RaceStep(i, [c EXCEPT !.pc = "done",
                                      !.out = [kind |-> "throw",
                                               error |-> ClockError(racing.g, c.timestamp)]],
                         racing.g)
           ELSE RaceStep(i, [c EXCEPT !.pc = "l73"], racing.g)

\* line 73: if (timestamp === this.lastTimestamp)
RaceCompare(i) ==
    LET c == racing.calls[i]
    IN  /\ c.pc = "l73"
        /\ RaceStep(i, [c EXCEPT !.pc = IF c.timestamp = racing.g.lastTimestamp
                                        THEN "l74r" ELSE "l82"],
                    racing.g)

\* line 74, right-hand side: this.sequence is read
RaceReadSequence(i) ==
    LET c == racing.calls[i]
    IN  /\ c.pc = "l74r"
        /\ RaceStep(i, [c EXCEPT !.pc = "l74w", !.sequence = racing.g.sequence], racing.g)

\* line 74, assignment: this.sequence = (value read + 1) & MAX_SEQUENCE
RaceWriteSequence(i) ==
    LET c == racing.calls[i]
    IN  /\ c.pc = "l74w"
        /\ RaceStep(i, [c EXCEPT !.pc = "l77"],
                    [racing.g EXCEPT !.sequence = NextSequence(c.sequence)])

\* line 77: if (this.sequence === 0)
RaceTestOverflow(i) ==
    LET c == racing.calls[i]
    IN  /\ c.pc = "l77"
        /\ RaceStep(i, [c EXCEPT !.pc = IF racing.g.sequence = 0 THEN "wait" ELSE "l85"],
                    racing.g)

\* lines 142-148: one reading of waitNextMillis(timestamp) and the test of
\* its loop; the reading that ends the loop is assigned to timestamp (line 78)
RaceWaitNextMillis(i, timestamp) ==
    LET c == racing.calls[i]
    IN  /\ c.pc = "wait"
        /\ IF StillWaiting(timestamp, c.timestamp)
           THEN RaceStep(i, c, racing.g)
           ELSE RaceStep(i, [c EXCEPT !.pc = "l85", !.timestamp = timestamp], racing.g)

\* line 82: this.sequence = 0
RaceResetSequence(i) ==
    LET c == racing.calls[i]
    IN  /\ c.pc = "l82"
        /\ RaceStep(i, [c EXCEPT !.pc = "l85"], [racing.g EXCEPT !.sequence = 0])

\* line 85: this.lastTimestamp = timestamp
RaceRecordTimestamp(i) ==
    LET c == racing.calls[i]
    IN  /\ c.pc = "l85"
        /\ RaceStep(i, [c EXCEPT !.pc = "l88"], RecordTimestamp(racing.g, c.timestamp))

\* lines 88-95: this.sequence is read, the id is built and returned
RaceBuild(i) ==
    LET c == racing.calls[i]
    IN  /\ c.pc = "l88"
        /\ RaceStep(i, [c EXCEPT !.pc = "done",
                                 !.out = [kind |-> "id",
                                          id |-> ToString(PackId(racing.g, c.timestamp))]],
                    racing.g)

RaceNext ==
    \E i \in Callers :
        \/ \E timestamp \in CallReadings : RaceReadClock(i, timestamp)
        \/ RaceCheckRegression(i)
        \/ RaceCompare(i)
        \/ RaceReadSequence(i)
        \/ RaceWriteSequence(i)
        \/ RaceTestOverflow(i)
        \/ \E timestamp \in WaitReadings : RaceWaitNextMillis(i, timestamp)
        \/ RaceResetSequence(i)
        \/ RaceRecordTimestamp(i)
        \/ RaceBuild(i)

RaceSpec == RaceInit /\ [][RaceNext]_vars

\* both invocations returned, and returned the same id
SameIdTwice ==
    /\ \A i \in Callers : racing.calls[i].out.kind = "id"
    /\ racing.calls[1].out.id = racing.calls[2].out.id

\* C14: two getId invocations on one instance whose reads and writes of
\* lastTimestamp and sequence interleave can return the same id (the state
\* C14_Witness, which is reached); the same id is returned twice only when the
\* invocations overlapped, so serialising them is what prevents it.
C14_DuplicateOnlyWhenInterleaved == SameIdTwice => racing.overlapped

\* an execution in which both invocations returned the same id
C14_Witness == SameIdTwice /\ racing.overlapped

-----------------------------------------------------------------------------
(* The epoch a generator encodes with (Spec).                              *)

\* the timestamp field of an id: id >> 22
TimestampField(id) == Shr(ParseBigInt(id), TIMESTAMP_SHIFT)

\* C15 (as claimed): when the options carry an epoch, 0 included, the first
\* id of the new generator encodes the clock reading minus that epoch, and
\* deconstruct adds the same epoch back; without an epoch in the options the
\* default epoch is used.
C15_SuppliedEpochUsed ==
    [][(ret.kind = "constructed" /\ ret'.kind = "id")
          => /\ Has(ret.options, "epoch")
                  => /\ NumAdd(ret.options.epoch, TimestampField(ret'.id)) = ret'.timestamp
                     /\ Deconstruct(gen', ret'.id).timestamp
                            = NumAdd(ret.options.epoch, TimestampField(ret'.id))
             /\ ~Has(ret.options, "epoch")
                  => NumAdd(DEFAULT_EPOCH, TimestampField(ret'.id)) = ret'.timestamp]_vars

\* the default epoch the SnowflakeOptions interface documents, 946684800000
DOCUMENTED_DEFAULT_EPOCH == Num(946684, 800000)

\* C16 (as claimed): a generator built without an epoch uses the documented
\* default 946684800000: the timestamp field of its id plus 946684800000 is
\* the clock reading the id was built from.
C16_DocumentedDefaultEpoch ==
    [][(ret.kind = "constructed" /\ ~Has(ret.options, "epoch") /\ ret'.kind = "id")
          => /\ gen'.epoch = DOCUMENTED_DEFAULT_EPOCH
             /\ NumAdd(DOCUMENTED_DEFAULT_EPOCH, TimestampField(ret'.id))
                    = ret'.timestamp]_vars

-----------------------------------------------------------------------------
(* IdService: the chain IdService.getInstance(options).getSnowflake()      *)
(* (SvcSpec).                                                              *)

\* the workerId and processId fields of an id
IdentityFields(id) ==
    <<BitAnd(Shr(ParseBigInt(id), WORKER_ID_SHIFT), MAX_WORKER_ID),
      BitAnd(Shr(ParseBigInt(id), PROCESS_ID_SHIFT), MAX_PROCESS_ID)>>

\* C18 (as claimed): after any getInstance calls, the id returned by
\* getSnowflake() on the service that getInstance({snowflake: {workerId: w,
\* processId: p}}) returned carries workerId w and processId p.
C18_InstanceOptionsApply ==
    [][(/\ svcRet.kind = "instance"
        /\ Has(svcRet.options, "snowflake")
        /\ svcRet'.kind = "id"
        /\ svcRet'.call = "getSnowflake"
        /\ svcRet'.options = Undefined)
          => IdentityFields(svcRet'.id) = <<WorkerIdOf(svcRet.options.snowflake),
                                            ProcessIdOf(svcRet.options.snowflake)>>]_vars

\* the workerId, processId and epoch getSnowflake(options) encodes with
SnowflakeIdentity(service, options) ==
    LET g == NewSnowflakeGenerator(IF options # Undefined THEN options
                                   ELSE Get(service.options, "snowflake")).object
    IN  <<g.workerId, g.processId, g.epoch>>

\* the latest service call was getSnowflake and returned an id
SnowflakeReturned(r) == r.kind = "id" /\ r.call = "getSnowflake"

C34_SnowflakePerFieldOverride ==
    (/\ SnowflakeReturned(svcRet)
     /\ svcRet.options # Undefined)
    => LET configured == Get(instance.options, "snowflake")
       IN  /\ (Has(configured, "workerId") /\ ~Has(svcRet.options, "workerId"))
                  => IdentityFields(svcRet.id)[1] = configured.workerId
           /\ (Has(configured, "processId") /\ ~Has(svcRet.options, "processId"))
                  => IdentityFields(svcRet.id)[2] = configured.processId

\* C36: a getInstance call that throws while no service exists leaves none
\* behind, and the getInstance call after it does what a first call with its
\* own options does: it stores and returns the service built from them, or
\* throws their error and stores nothing.
C36_FailedGetInstanceLeavesNoSingleton ==
    /\ [](FailedGetInstance(svcRet) => instance = Undefined)
    /\ [][(FailedGetInstance(svcRet) /\ svcRet'.call = "getInstance")
             => LET made == NewIdService(svcRet'.options)
                IN  IF made.kind = "object"
                    THEN /\ instance' = made.object
                         /\ svcRet'.kind = "instance"
                         /\ svcRet'.value = made.object
                    ELSE /\ instance' = Undefined
                         /\ svcRet' = [kind |-> "throw", call |-> "getInstance",
                                       options |-> svcRet'.options,
                                       error |-> made.error]]_vars

\* after a call that threw, getInstance({type: 'snowflake', snowflake:
\* {workerId: 1, processId: 1}}) returned a service with these options and a
\* snowflake generator
C36_Witness ==
    /\ svcRet.kind = "instance"
    /\ svcRet.afterFailure
    /\ svcRet.options = [type |-> "snowflake", snowflake |-> [workerId |-> 1, processId |-> 1]]
    /\ instance = svcRet.value
    /\ instance.options = svcRet.options
    /\ instance.generator.class = "SnowflakeGenerator"

-----------------------------------------------------------------------------
(* IdService: configure, getId and the methods of the generators that are  *)
(* not implemented (ServiceSpec).                                          *)

\* same-millisecond getId() calls followed on the service's generator
MaxServiceSequence == 2

\* { ...a, ...b }
Merge(a, b) == [f \in DOMAIN a \cup DOMAIN b |-> IF f \in DOMAIN b THEN b[f] ELSE a[f]]

\* results of uuidv4(): random, two of them followed
UuidV4Samples ==
    { "9b1deb4d-3b7d-4bad-9bdd-2b0d7b3dcb6d", "1b9d6bcd-bbfd-4b2d-9b5d-ab8dfbbd4bed" }

\* the alphabet of nanoid(): 64 URL-safe characters
UrlAlphabet ==
    << "u", "s", "e", "a", "n", "d", "o", "m", "-", "2", "6", "T", "1", "9", "8", "3",
       "4", "0", "P", "X", "7", "5", "p", "x", "J", "A", "C", "K", "V", "E", "R", "Y",
       "M", "I", "N", "D", "B", "U", "S", "H", "W", "O", "L", "F", "_", "G", "Q", "Z",
       "b", "f", "g", "h", "j", "k", "l", "q", "v", "w", "y", "z", "r", "i", "c", "t" >>

\* nanoid's default size
DEFAULT_NANOID_SIZE == 21

\* The bytes the library's random source yields during one call: a pattern
\* that repeats.  Every pattern holds a byte that any alphabet accepts, as a
\* run of rejected bytes ends with probability 1.
RandomSources == { <<0>>, <<255, 2>>, <<3, 66, 129>>, <<200, 7, 64, 35, 254>> }

\* the k-th byte drawn, k = 0, 1, ...
ByteAt(bytes, k) == bytes[(k % Len(bytes)) + 1]

RECURSIVE MaskAtLeast(_, _)
MaskAtLeast(mask, n) == IF mask >= n THEN mask ELSE MaskAtLeast(2 * mask + 1, n)

\* customAlphabet's bit mask: (2 << (31 - Math.clz32((alphabet.length - 1) | 1))) - 1
AlphabetMask(alphabet) == MaskAtLeast(1, BitOr(Len(alphabet) - 1, 1))

\* what one random byte adds to the id: alphabet[byte & mask] || ''
CharacterFor(alphabet, index) ==
    IF index < Len(alphabet) THEN <<alphabet[index + 1]>> ELSE << >>

\* The generator customAlphabet(alphabet, size) returns, called on the random
\* bytes: a byte whose masked value is no index of the alphabet adds nothing,
\* and the id is returned as soon as it has `size` characters.
RECURSIVE CustomAlphabetId(_, _, _, _, _, _)
CustomAlphabetNext(alphabet, mask, size, bytes, k, id) ==
    IF Len(id) >= size THEN id
    ELSE CustomAlphabetId(alphabet, mask, size, bytes, k + 1, id)

CustomAlphabetId(alphabet, mask, size, bytes, k, id) ==
    CustomAlphabetNext(alphabet, mask, size, bytes, k,
                       id \o CharacterFor(alphabet, BitAnd(ByteAt(bytes, k), mask)))

\* nanoid(size): one character of the URL alphabet per random byte
NanoIdOfSize(size, bytes) ==
    [i \in 1..size |-> UrlAlphabet[BitAnd(ByteAt(bytes, i - 1), 63) + 1]]

\* (the size not passed to customAlphabet)
NewNanoIdGenerator_SizeDropped(options) ==
    IF Has(options, "alphabet") /\ options.alphabet # << >>
    THEN [generator |-> "customAlphabet", alphabet |-> options.alphabet,
          size |-> DEFAULT_NANOID_SIZE]
    ELSE IF Has(options, "size") /\ options.size # 0
    THEN [generator |-> "nanoid(size)", size |-> options.size]
    ELSE [generator |-> "nanoid"]

\* (the alphabet not passed on)
NewNanoIdGenerator_AlphabetDropped(options) ==
    IF Has(options, "size") /\ options.size # 0
    THEN [generator |-> "nanoid(size)", size |-> options.size]
    ELSE [generator |-> "nanoid"]

\* new NanoIdGenerator(options): the function kept in this.generator.  An
\* alphabet is a sequence of characters; the empty string and 0 are falsy.
NewNanoIdGenerator(options) ==
    IF Has(options, "alphabet") /\ options.alphabet # << >>
    THEN [generator |-> "customAlphabet", alphabet |-> options.alphabet,
          size |-> IF Has(options, "size") /\ options.size # 0 THEN options.size
                   ELSE DEFAULT_NANOID_SIZE]
    ELSE IF Has(options, "size") /\ options.size # 0
    THEN [generator |-> "nanoid(size)", size |-> options.size]
    ELSE [generator |-> "nanoid"]

\* NanoIdGenerator.getId(): this.generator(), on the random bytes
NanoIdOf(n, bytes) ==
    CASE n.generator = "customAlphabet" ->
            CustomAlphabetId(n.alphabet, AlphabetMask(n.alphabet), n.size, bytes, 0, << >>)
      [] n.generator = "nanoid(size)" -> NanoIdOfSize(n.size, bytes)
      [] n.generator = "nanoid" -> NanoIdOfSize(DEFAULT_NANOID_SIZE, bytes)

\* results of new NanoIdGenerator(options).getId()
NanoIdOutcomes(options) ==
    {NanoIdOf(NewNanoIdGenerator(options), bytes) : bytes \in RandomSources}

\* the arguments configure is called with
ConfigureOptions ==
    { EmptyObject,
      [type |-> "uuidv4"],
      [type |-> "uuidv7"],
      [type |-> "cuid"],
      [type |-> "snowflake"],
      [type |-> "snowflake", snowflake |-> [workerId |-> 2, processId |-> 3]],
      [snowflake |-> [workerId |-> 2, processId |-> 3]],
      [type |-> "nanoid"],
      [type |-> "nanoid", nanoid |-> [size |-> 5]],
      [type |-> "cuid", nanoid |-> [size |-> 5]] }

\* service.configure(options)
Configure(options) ==
    /\ instance # Undefined
    /\ \E merged \in {Merge(instance.options, options)} :
          \E made \in {CreateGenerator(TypeOf(options), merged)} :
              IF made.kind = "throw"
              THEN /\ instance' = [instance EXCEPT !.options = merged]
                   /\ svcRet' = [kind |-> "throw", call |-> "configure",
                                 options |-> options, error |-> made.error]
                   /\ UNCHANGED issued
              ELSE /\ instance' = [options |-> merged, generator |-> made.object]
                   /\ svcRet' = [kind |-> "void", call |-> "configure", options |-> options]
                   /\ issued' = NoHistory
    /\ UNCHANGED <<gen, pc, waitArg, ret, svcIds, served, otherVars>>

\* an id of the generator g, as the history holds it
ServedId(g, id) ==
    [workerId |-> g.workerId, processId |-> g.processId, epoch |-> g.epoch, id |-> id]

\* the history after getId() returned id on the snowflake generator g; a
\* specification that does not follow the ids does not keep them
Served(h, g, id) == IF h.kept THEN [h EXCEPT !.ids = @ \cup {ServedId(g, id)}] ELSE h

\* (the generator's fields not kept after the call)
KeepFields_Discard(service, fields) == service

\* this.generator.getId() works on the fields of the service's generator
KeepFields(service, fields) == [service EXCEPT !.generator.fields = fields]

\* service.getId(): this.generator.getId(), the clock reading `timestamp`
ServiceGetId(timestamp) ==
    /\ instance # Undefined
    /\ \E g \in {instance.generator} :
          CASE g.class = "SnowflakeGenerator" ->
                  /\ ~(/\ timestamp = g.fields.lastTimestamp
                        /\ g.fields.sequence >= MaxServiceSequence)
                  /\ \E out \in GetIdOutcomes(g.fields, timestamp, WaitReadings) :
                        /\ instance' = KeepFields(instance, out.g)
                        /\ IF out.kind = "id"
                           THEN /\ svcRet' = [kind |-> "id", call |-> "getId", id |-> out.id,
                                              timestamp |-> timestamp]
                                /\ issued' = Remember(issued, out.g, out.id)
                                /\ served' = Served(served, out.g, out.id)
                           ELSE /\ svcRet' = [kind |-> "throw", call |-> "getId",
                                              error |-> out.error]
                                /\ UNCHANGED <<issued, served>>
            [] g.class = "UuidV4Generator" ->
                  /\ \E id \in UuidV4Samples :
                        svcRet' = [kind |-> "id", call |-> "getId", id |-> id]
                  /\ UNCHANGED <<instance, issued, served>>
            [] g.class = "NanoIdGenerator" ->
                  /\ \E id \in NanoIdOutcomes(g.options) :
                        svcRet' = [kind |-> "id", call |-> "getId", id |-> id]
                  /\ UNCHANGED <<instance, issued, served>>
    /\ UNCHANGED <<gen, pc, waitArg, ret, svcIds, otherVars>>

\* service.getUuidV7()
GetUuidV7 ==
    /\ instance # Undefined
    /\ svcRet' = [kind |-> "throw", call |-> "getUuidV7",
                  error |-> [message |-> <<"UUIDv7 generator not yet implemented">>]]
    /\ UNCHANGED <<instance, svcIds, served, genVars, otherVars>>

\* service.getCuid()
GetCuid ==
    /\ instance # Undefined
    /\ svcRet' = [kind |-> "throw", call |-> "getCuid",
                  error |-> [message |-> <<"CUID generator not yet implemented">>]]
    /\ UNCHANGED <<instance, svcIds, served, genVars, otherVars>>

ServiceNext ==
    \/ \E options \in ServiceOptions : GetInstance(options)
    \/ \E options \in ConfigureOptions : Configure(options)
    \/ \E timestamp \in CallReadings : ServiceGetId(timestamp)
    \/ GetUuidV7
    \/ GetCuid

ServiceSpec == Init /\ [][ServiceNext]_vars

LatestCall == IF svcRet.kind = "none" THEN "none" ELSE svcRet.call

NotImplemented(name) == <<name \o " generator not yet implemented">>

\* C20: configure({type: 'uuidv7'}) and getUuidV7() fail with 'UUIDv7 generator
\* not yet implemented', configure({type: 'cuid'}) and getCuid() fail with
\* 'CUID generator not yet implemented', in every state of the service, and
\* return no id.
C20_NotImplemented ==
    /\ (LatestCall = "configure" /\ Has(svcRet.options, "type")
            /\ svcRet.options.type = "uuidv7")
           => (svcRet.kind = "throw" /\ svcRet.error.message = NotImplemented("UUIDv7"))
    /\ (LatestCall = "configure" /\ Has(svcRet.options, "type")
            /\ svcRet.options.type = "cuid")
           => (svcRet.kind = "throw" /\ svcRet.error.message = NotImplemented("CUID"))
    /\ LatestCall = "getUuidV7"
           => (svcRet.kind = "throw" /\ svcRet.error.message = NotImplemented("UUIDv7"))
    /\ LatestCall = "getCuid"
           => (svcRet.kind = "throw" /\ svcRet.error.message = NotImplemented("CUID"))

\* configure({type: 'cuid'}) failed on a service whose snowflake generator
\* has issued ids
C20_Witness ==
    /\ LatestCall = "configure"
    /\ svcRet.options = [type |-> "cuid"]
    /\ svcRet.kind = "throw"
    /\ instance.generator.class = "SnowflakeGenerator"
    /\ issued.last # {}

\* C29 (as claimed): a configure call that fails leaves the service's stored
\* options and its generator as they were before the call.
C29_FailedConfigureChangesNothing ==
    [][(svcRet'.kind = "throw" /\ svcRet'.call = "configure") =>
          /\ instance'.options = instance.options
          /\ instance'.generator = instance.generator]_vars

\* the IdGeneratorType a generator class is built for
GeneratorType(class) ==
    CASE class = "UuidV4Generator" -> "uuidv4"
      [] class = "SnowflakeGenerator" -> "snowflake"
      [] class = "NanoIdGenerator" -> "nanoid"

\* the service's generator is of the type its stored options record
TypeMatches(service) == GeneratorType(service.generator.class) = TypeOf(service.options)

\* C30 (as claimed): the service is created with the generator of the type in
\* its options (uuidv4 when none), and a configure call that succeeds on a
\* service whose generator matches the stored type leaves them matching.
C30_GeneratorMatchesStoredType ==
    [][/\ (instance = Undefined /\ instance' # Undefined) => TypeMatches(instance')
       /\ (/\ instance # Undefined
           /\ TypeMatches(instance)
           /\ svcRet'.kind = "void"
           /\ svcRet'.call = "configure") => TypeMatches(instance')]_vars

-----------------------------------------------------------------------------
(* A service of type 'snowflake' that is configured again between getId()  *)
(* calls (ReconfigureSpec); the ids getId() returned are kept.             *)

\* getId() calls followed
MaxServed == 3

\* the options of getInstance and configure: the default identity, the same
\* identity spelled out, and another one
ReconfigureOptions ==
    { [type |-> "snowflake"],
      [type |-> "snowflake", snowflake |-> [workerId |-> 1, processId |-> 1]],
      [type |-> "snowflake", snowflake |-> [workerId |-> 2, processId |-> 3]] }

ReconfigureInit ==
    /\ gen = Undefined
    /\ pc = "idle"
    /\ waitArg = Undefined
    /\ ret = [kind |-> "none"]
    /\ issued = NoHistory
    /\ instance = Undefined
    /\ svcRet = [kind |-> "none"]
    /\ svcIds = {}
    /\ served = [kept |-> TRUE, ids |-> {}]
    /\ peers = Undefined
    /\ racing = Undefined
    /\ nano = Undefined
    /\ decoded = {}
    /\ retry = Undefined

\* service.getId(), followed for MaxServed ids
ReconfigureGetId(timestamp) ==
    /\ Cardinality(served.ids) < MaxServed
    /\ ServiceGetId(timestamp)

ReconfigureNext ==
    \/ \E options \in ReconfigureOptions : GetInstance(options)
    \/ \E options \in ReconfigureOptions : Configure(options)
    \/ \E timestamp \in CallReadings : ReconfigureGetId(timestamp)

ReconfigureSpec == ReconfigureInit /\ [][ReconfigureNext]_vars

\* C31 (as claimed): an id that getId() returns on a snowflake service was not
\* returned before by getId() on a generator with the same workerId,
\* processId and epoch, whatever configure calls came in between.
C31_DistinctAcrossConfigure ==
    [][(/\ svcRet' # svcRet
        /\ svcRet'.kind = "id"
        /\ svcRet'.call = "getId"
        /\ instance'.generator.class = "SnowflakeGenerator")
       => ServedId(instance'.generator.fields, svcRet'.id) \notin served.ids]_vars

-----------------------------------------------------------------------------
(* NanoIdGenerator, used directly and through IdService.getNanoId          *)
(* (NanoSpec).                                                             *)

\* '0123456789ABCDEF'
HexAlphabet ==
    <<"0", "1", "2", "3", "4", "5", "6", "7", "8", "9", "A", "B", "C", "D", "E", "F">>

\* alphabets passed in the options: '', 'x', 'abc' and the one of the tests
AlphabetArgs == { << >>, <<"x">>, <<"a", "b", "c">>, HexAlphabet }

\* sizes passed in the options
SizeArgs == {0, 1, 5, 10, 16, 21, 30}

\* every shape of NanoIdOptions
NanoOptions ==
    {Undefined, EmptyObject}
    \cup {[size |-> n] : n \in SizeArgs}
    \cup {[alphabet |-> a] : a \in AlphabetArgs}
    \cup {[alphabet |-> a, size |-> n] : a \in AlphabetArgs, n \in SizeArgs}

\* new NanoIdGenerator(options)
NanoConstruct(options) ==
    /\ nano = Undefined
    /\ nano' = [options |-> options, generator |-> NewNanoIdGenerator(options),
                out |-> [kind |-> "none"]]
    /\ UNCHANGED <<genVars, svcVars, peers, racing, decoded, retry>>

\* generator.getId(), the library drawing the random bytes `bytes`
NanoGetId(bytes) ==
    /\ nano # Undefined
    /\ nano' = [nano EXCEPT !.out = [kind |-> "id", id |-> NanoIdOf(nano.generator, bytes)]]
    /\ UNCHANGED <<genVars, svcVars, peers, racing, decoded, retry>>

\* the arguments getInstance is called with
NanoServiceOptions ==
    { Undefined,
      [nanoid |-> [size |-> 10]],
      [type |-> "nanoid", nanoid |-> [alphabet |-> <<"a", "b", "c">>, size |-> 5]] }

\* the arguments getNanoId is called with
NanoCallOptions ==
    { Undefined, EmptyObject, [size |-> 10], [size |-> 0],
      [alphabet |-> HexAlphabet, size |-> 16], [alphabet |-> <<"x">>],
      [alphabet |-> << >>] }

\* (the call's options replacing the configured ones whole)
NanoFinalOptions_CallOnly(service, options) ==
    IF options # Undefined THEN options ELSE Get(service.options, "nanoid")

\* options ? { ...this.options.nanoid, ...options } : this.options.nanoid
NanoFinalOptions(service, options) ==
    LET configured == Get(service.options, "nanoid")
    IN  IF options # Undefined
        THEN Merge(IF configured = Undefined THEN EmptyObject ELSE configured, options)
        ELSE configured

\* service.getNanoId(options), the library drawing the random bytes `bytes`
GetNanoId(options, bytes) ==
    /\ instance # Undefined
    /\ svcRet' = [kind |-> "id", call |-> "getNanoId", options |-> options,
                  id |-> NanoIdOf(NewNanoIdGenerator(NanoFinalOptions(instance, options)),
                                  bytes)]
    /\ UNCHANGED <<instance, svcIds, served, genVars, otherVars>>

NanoNext ==
    \/ \E options \in NanoOptions : NanoConstruct(options)
    \/ \E bytes \in RandomSources : NanoGetId(bytes)
    \/ \E options \in NanoServiceOptions : GetInstance(options)
    \/ \E options \in NanoCallOptions, bytes \in RandomSources : GetNanoId(options, bytes)

NanoSpec == Init /\ [][NanoNext]_vars

\* the characters of an alphabet
Characters(alphabet) == {alphabet[i] : i \in 1..Len(alphabet)}

\* C21: the id of a NanoIdGenerator built with a positive size, with or
\* without an alphabet, has exactly that many characters; built without a
\* size it has 21 characters.
C21_NanoIdLength ==
    (nano # Undefined /\ nano.out.kind = "id") =>
        /\ (Has(nano.options, "size") /\ nano.options.size > 0)
               => Len(nano.out.id) = nano.options.size
        /\ ~Has(nano.options, "size") => Len(nano.out.id) = 21

\* 30 characters of 'abc' were returned, drawn from bytes of which some were
\* rejected
C21_Witness ==
    /\ nano # Undefined
    /\ nano.out.kind = "id"
    /\ nano.options = [alphabet |-> <<"a", "b", "c">>, size |-> 30]
    /\ Len(nano.out.id) = 30
    /\ "c" \in Characters(nano.out.id)

\* C22: when a non-empty alphabet is given, to the generator or in the call
\* to getNanoId, every character of the id belongs to it.
C22_NanoIdAlphabet ==
    /\ (nano # Undefined /\ nano.out.kind = "id" /\ Has(nano.options, "alphabet")
            /\ nano.options.alphabet # << >>)
           => Characters(nano.out.id) \subseteq Characters(nano.options.alphabet)
    /\ (svcRet.kind = "id" /\ svcRet.call = "getNanoId" /\ Has(svcRet.options, "alphabet")
            /\ svcRet.options.alphabet # << >>)
           => Characters(svcRet.id) \subseteq Characters(svcRet.options.alphabet)

\* getNanoId was called with the hexadecimal alphabet on a service configured
\* with the alphabet 'abc', and a generator was used directly with 'abc'
C22_Witness ==
    /\ svcRet.kind = "id"
    /\ svcRet.call = "getNanoId"
    /\ svcRet.options = [alphabet |-> HexAlphabet, size |-> 16]
    /\ Has(instance.options, "nanoid")
    /\ Len(svcRet.id) = 16
    /\ "F" \in Characters(svcRet.id)
    /\ nano # Undefined
    /\ nano.out.kind = "id"
    /\ Has(nano.options, "alphabet")
    /\ nano.options.alphabet = <<"a", "b", "c">>

\* the nanoid options of a call, taken field by field: the call's value when
\* the call has the field, the configured value otherwise
PerField(configured, options) ==
    [f \in {h \in {"alphabet", "size"} : Has(options, h) \/ Has(configured, h)} |->
        IF Has(options, f) THEN options[f] ELSE configured[f]]

\* C33: getNanoId(options) returns an id of a generator built from the
\* configured nanoid options overridden field by field by the call's options,
\* and leaves the service, its stored options included, as it was.
C33_NanoPerFieldMerge ==
    /\ []((svcRet.kind = "id" /\ svcRet.call = "getNanoId")
            => svcRet.id \in
                 NanoIdOutcomes(PerField(Get(instance.options, "nanoid"), svcRet.options)))
    /\ [][(svcRet'.kind = "id" /\ svcRet'.call = "getNanoId") => instance' = instance]_vars

\* a service configured with the alphabet 'abc' and size 5 was asked for an
\* id of size 10: 10 characters of 'abc' came back and the stored options are
\* the configured ones
C33_Witness ==
    /\ svcRet.kind = "id"
    /\ svcRet.call = "getNanoId"
    /\ svcRet.options = [size |-> 10]
    /\ Get(instance.options, "nanoid") = [alphabet |-> <<"a", "b", "c">>, size |-> 5]
    /\ Len(svcRet.id) = 10
    /\ Characters(svcRet.id) \subseteq {"a", "b", "c"}

-----------------------------------------------------------------------------
(* SnowflakeGenerator given numbers that are not integers (NumberSpec).    *)
(* workerId, processId and epoch are JavaScript numbers: here NaN, an      *)
(* integer n, or n + 0.5.  In this specification the fields of gen hold    *)
(* such numbers.                                                           *)

NaN == [nan |-> TRUE]

Whole(n) == [whole |-> n, half |-> FALSE]

\* n + 0.5
Half(n) == [whole |-> n, half |-> TRUE]

IsNaN(x) == "nan" \in DOMAIN x

\* Number.isInteger(x): what BigInt(x) needs, a RangeError otherwise
IsInteger(x) == ~IsNaN(x) /\ ~x.half

\* x < n for an integer n: false for NaN
Below(x, n) == ~IsNaN(x) /\ x.whole < n

\* x > n for an integer n: false for NaN
Above(x, n) == ~IsNaN(x) /\ (x.whole > n \/ (x.whole = n /\ x.half))

\* options?.epoch || 1733011200000: NaN and 0 are falsy
NumberEpochOf(options) ==
    IF Has(options, "epoch") /\ ~IsNaN(options.epoch) /\ options.epoch # Whole(Num(0, 0))
    THEN options.epoch
    ELSE Whole(DEFAULT_EPOCH)

\* options?.workerId ?? 1
NumberWorkerIdOf(options) ==
    IF Has(options, "workerId") THEN options.workerId ELSE Whole(DEFAULT_WORKER_ID)

\* options?.processId ?? 1
NumberProcessIdOf(options) ==
    IF Has(options, "processId") THEN options.processId ELSE Whole(DEFAULT_PROCESS_ID)

\* new SnowflakeGenerator(options) with the two range checks of lines 43-52
NewNumberGenerator(options) ==
    IF Below(NumberWorkerIdOf(options), 0) \/ Above(NumberWorkerIdOf(options), MAX_WORKER_ID)
    THEN [kind |-> "throw", error |-> WorkerIdError]
    ELSE IF \/ Below(NumberProcessIdOf(options), 0)
            \/ Above(NumberProcessIdOf(options), MAX_PROCESS_ID)
    THEN [kind |-> "throw", error |-> ProcessIdError]
    ELSE [kind |-> "object",
          object |-> [workerId |-> NumberWorkerIdOf(options),
                      processId |-> NumberProcessIdOf(options),
                      epoch |-> NumberEpochOf(options),
                      sequence |-> 0,
                      lastTimestamp |-> INITIAL_LAST_TIMESTAMP]]

\* BigInt(x) of a number that is not an integer
RangeError(x) == [name |-> "RangeError", value |-> x]

\* Lines 85-95 of getId: record the timestamp, then convert timestamp - epoch,
\* workerId and processId with BigInt, in this order, and build the id.
NumberGetIdEnd(g, timestamp) ==
    LET g2 == [g EXCEPT !.lastTimestamp = timestamp]
    IN  IF ~IsInteger(g2.epoch)
        THEN [kind |-> "throw", g |-> g2, error |-> RangeError(<<timestamp, "-", g2.epoch>>)]
        ELSE IF ~IsInteger(g2.workerId)
        THEN [kind |-> "throw", g |-> g2, error |-> RangeError(g2.workerId)]
        ELSE IF ~IsInteger(g2.processId)
        THEN [kind |-> "throw", g |-> g2, error |-> RangeError(g2.processId)]
        ELSE [kind |-> "id", g |-> g2,
              id |-> ToString(PackId([g2 EXCEPT !.epoch = @.whole, !.workerId = @.whole,
                                                !.processId = @.whole], timestamp))]

\* a whole getId call that starts on reading `timestamp`
NumberGetIdOutcomes(g, timestamp, waitReadings) ==
    LET b == GetIdBegin(g, timestamp)
    IN  IF b.next = "throw" THEN {[kind |-> "throw", g |-> b.g, error |-> b.error]}
        ELSE IF b.next = "build" THEN {NumberGetIdEnd(b.g, timestamp)}
        ELSE {NumberGetIdEnd(b.g, t) : t \in {w \in waitReadings : ~StillWaiting(w, timestamp)}}

\* same-millisecond getId() calls followed on such a generator
MaxNumberSequence == 2

\* the constructor arguments
NumberOptions ==
    { Undefined,
      [workerId |-> Whole(0), processId |-> Whole(MAX_PROCESS_ID)],
      [workerId |-> Whole(MAX_WORKER_ID + 1)],
      [workerId |-> Half(MAX_WORKER_ID)],
      [workerId |-> Half(-1)],
      [workerId |-> Half(1)],
      [workerId |-> NaN],
      [processId |-> Half(0)],
      [processId |-> NaN],
      [processId |-> Whole(-1)],
      [epoch |-> NaN],
      [epoch |-> Half(ClockBase)],
      [workerId |-> Whole(2), epoch |-> Whole(Num(0, 0))] }

\* new SnowflakeGenerator(options): the generator followed from then on
NumberConstruct(options) ==
    /\ \E made \in {NewNumberGenerator(options)} :
          IF made.kind = "object"
          THEN /\ gen' = made.object
               /\ ret' = [kind |-> "object", call |-> "constructor", options |-> options]
          ELSE /\ gen' = gen
               /\ ret' = [kind |-> "throw", call |-> "constructor", options |-> options,
                          error |-> made.error]
    /\ UNCHANGED <<pc, waitArg, issued, svcVars, otherVars>>

\* generator.getId(), the clock reading `timestamp`
NumberGetId(timestamp) ==
    /\ gen # Undefined
    /\ ~(timestamp = gen.lastTimestamp /\ gen.sequence >= MaxNumberSequence)
    /\ \E out \in NumberGetIdOutcomes(gen, timestamp, WaitReadings) :
          /\ gen' = out.g
          /\ ret' = IF out.kind = "id"
                    THEN [kind |-> "id", call |-> "getId", id |-> out.id,
                          timestamp |-> timestamp]
                    ELSE [kind |-> "throw", call |-> "getId", error |-> out.error,
                          timestamp |-> timestamp]
    /\ UNCHANGED <<pc, waitArg, issued, svcVars, otherVars>>

NumberNext ==
    \/ \E options \in NumberOptions : NumberConstruct(options)
    \/ \E timestamp \in CallReadings : NumberGetId(timestamp)

NumberSpec == Init /\ [][NumberNext]_vars

\* the error of line 67
IsClockError(error) ==
    /\ "message" \in DOMAIN error
    /\ error.message[1] = "Clock moved backwards. Refusing to generate ID for "

\* C35 (as claimed): getId on a generator that the constructor accepted fails
\* only with the clock-regression error, and a getId that fails leaves
\* lastTimestamp and sequence as they were.
C35_AcceptedGeneratorsGenerate ==
    /\ []((ret.kind = "throw" /\ ret.call = "getId") => IsClockError(ret.error))
    /\ [][(ret'.kind = "throw" /\ ret'.call = "getId" /\ gen # Undefined)
             => /\ gen'.lastTimestamp = gen.lastTimestamp
                /\ gen'.sequence = gen.sequence]_vars

====
